---- MODULE Spec2Model ----
\* Query builder (SearchQuery) and executor (FullTextSearch.execute) of
\* src/search/full_text_search.py.
\*
\* SQL text is a sequence of tokens: literal pieces of the templates, named
\* placeholders (":name") and the numbers interpolated for LIMIT/OFFSET.
\* Parameter names and bound values are sequences of characters, so that
\* startswith, strip and replace are computed and not assumed.
EXTENDS Integers, Sequences, FiniteSets, TLC

VARIABLES
    q,                   \* the SearchQuery instance (its dataclass fields)
    call,                \* the builder call made last: method, outcome, raw text
    last_search,         \* the raw arguments of the last non-blank search call
    last_order,          \* the arguments of the last order_by call
    hist,                \* the calls that added a clause to q, in order
    _custom_transformer, \* FullTextSearch._custom_transformer is set
    pc,                  \* position of the execute call in progress
    req_page,            \* q._page when execute was entered
    db_log,              \* statements sent to the session by execute, in order
    total,               \* local of execute
    total_pages,         \* local of execute
    rows,                \* local of execute: rows fetched
    outcome,             \* what execute gave back: envelope or exception
    sess,                \* the sessions of the call in progress and the store's replies
    fmt,                 \* the format_field call made last: key, value, result
    xw,                  \* the crosswalk call made last: row, record returned
    thr                  \* the calls of concurrent callers: query, position, locals

vars == <<q, call, last_search, last_order, hist, _custom_transformer, pc, req_page, db_log,
          total, total_pages, rows, outcome, sess, fmt,
          xw, thr>>

bvars == <<q, call, last_search, last_order, hist>>
evars == <<_custom_transformer, pc, req_page, db_log, total, total_pages, rows, outcome, sess,
           fmt, xw, thr>>

-----------------------------------------------------------------------------
\* Bounds of the model.

MaxClauses == 3     \* clauses one SearchQuery accumulates (search + filters)
MaxPage == 4        \* largest page number asked for
MaxSize == 3        \* largest small page size asked for
MaxTotal == 7       \* largest small row count the count query returns

-----------------------------------------------------------------------------
\* Enumerations of src/search/constants.py.

SearchType == {"fts", "fuzzy"}
SearchField == {"book"}
OrderBy == {"relevance", "downloads", "title", "author", "release_date", "random"}
SortDirection == {"asc", "desc"}
Crosswalk == {"full", "pg", "opds", "custom", "mini"}

None == "None"

-----------------------------------------------------------------------------
\* Strings.

StartsWith(s, prefix) ==
    /\ Len(s) >= Len(prefix)
    /\ SubSeq(s, 1, Len(prefix)) = prefix

IsSpace(c) == c \in {" ", "\t", "\n"}

RECURSIVE LStrip(_)
LStrip(s) == IF s # <<>> /\ IsSpace(Head(s)) THEN LStrip(Tail(s)) ELSE s

RECURSIVE RStrip(_)
RStrip(s) ==
    IF s # <<>> /\ IsSpace(s[Len(s)]) THEN RStrip(SubSeq(s, 1, Len(s) - 1)) ELSE s

Strip(s) == RStrip(LStrip(s))

RemoveChar(s, c) == SelectSeq(s, LAMBDA x : x # c)

Upper(d) == CASE d = "asc" -> "ASC" [] d = "desc" -> "DESC"

\* The decimal rendering of an integer, as a sequence of characters.
IntVal(n) == <<ToString(n)>>

-----------------------------------------------------------------------------
\* SQL tokens and parameter maps.

Lit(s) == [t |-> "lit", s |-> <<s>>]
Ph(name) == [t |-> "ph", s |-> name]
Num(n) == [t |-> "num", s |-> IntVal(n)]
Hole == [t |-> "hole", s |-> <<>>]

EmptyParams == [k \in {} |-> <<>>]

OneParam(k, v) == [x \in {k} |-> v]

\* dict.update
Update(d, p) ==
    [k \in (DOMAIN d) \cup (DOMAIN p) |-> IF k \in DOMAIN p THEN p[k] ELSE d[k]]

\* The number of "{}" among the first i tokens of a template.
RECURSIVE HolesUpTo(_, _)
HolesUpTo(tmpl, i) ==
    IF i = 0 THEN 0
    ELSE HolesUpTo(tmpl, i - 1) + (IF tmpl[i] = Hole THEN 1 ELSE 0)

\* str.format(*placeholders): the k-th "{}" becomes the k-th placeholder.
Format(tmpl, placeholders) ==
    [i \in 1..Len(tmpl) |->
        IF tmpl[i] = Hole THEN placeholders[HolesUpTo(tmpl, i)] ELSE tmpl[i]]

\* " AND ".join(sqls)
RECURSIVE JoinAnd(_)
JoinAnd(sqls) ==
    IF sqls = <<>> THEN <<>>
    ELSE IF Len(sqls) = 1 THEN sqls[1]
    ELSE sqls[1] \o <<Lit("AND")>> \o JoinAnd(Tail(sqls))

-----------------------------------------------------------------------------
\* Module-level tables.

_FIELD_COLS == [f \in SearchField |-> [fts_col |-> "tsvec", text_col |-> "book_text"]]

_ORDER_COLUMNS ==
    [o \in {"downloads", "title", "author", "release_date", "random"} |->
        CASE o = "downloads" -> [col |-> "downloads", dir |-> "desc", nulls |-> None]
          [] o = "title" -> [col |-> "title", dir |-> "asc", nulls |-> None]
          [] o = "author" -> [col |-> "all_authors", dir |-> "asc", nulls |-> "LAST"]
          [] o = "release_date" ->
                [col |-> "CAST(release_date AS date)", dir |-> "desc", nulls |-> "LAST"]
          [] o = "random" -> [col |-> "RANDOM()", dir |-> None, nulls |-> None]]

-----------------------------------------------------------------------------
\* SearchQuery: the builder.

\* SearchQuery(): the dataclass defaults.
SearchQuery ==
    [_search |-> <<>>, _filters |-> <<>>, _order |-> "downloads", _sort_dir |-> None,
     _page |-> 1, _page_size |-> 25, _crosswalk |-> "pg", _param_counter |-> 0]

PName(n) == <<"_", "_", "p">> \o IntVal(n)

_new_param(s, value) ==
    [pname |-> PName(s._param_counter),
     p |-> OneParam(PName(s._param_counter), value),
     s |-> [s EXCEPT !._param_counter = @ + 1]]

filter(s, sql_template, values) ==
    LET names == [i \in 1..Len(values) |-> PName(s._param_counter + i - 1)]
        params == [k \in {names[i] : i \in 1..Len(values)} |->
                      values[CHOOSE i \in 1..Len(values) : names[i] = k]]
        placeholders == [i \in 1..Len(values) |-> Ph(names[i])]
        sql == Format(sql_template, placeholders)
    IN  [s EXCEPT !._param_counter = @ + Len(values),
                  !._filters = Append(@, [sql |-> sql, p |-> params])]

search(s, txt, field, search_type) ==
    LET stripped == Strip(txt)
        cols == _FIELD_COLS[field]
        np == _new_param(s, stripped)
    IN  IF stripped = <<>> THEN s
        ELSE IF search_type = "fts"
        THEN [np.s EXCEPT !._search = Append(@,
                [sql |-> <<Lit(cols.fts_col), Lit("@@"),
                           Lit("websearch_to_tsquery('english',"), Ph(np.pname), Lit(")")>>,
                 p |-> np.p, col |-> cols.fts_col])]
        ELSE [np.s EXCEPT !._search = Append(@,
                [sql |-> <<Ph(np.pname), Lit("<%"), Lit(cols.text_col)>>,
                 p |-> np.p, col |-> cols.text_col])]

etext(s, nr) == filter(s, <<Lit("book_id"), Lit("="), Hole>>, <<IntVal(nr)>>)

public_domain(s) ==
    [s EXCEPT !._filters = Append(@, [sql |-> <<Lit("copyrighted = 0")>>, p |-> EmptyParams])]

\* Only the names the counter generates next are refused.
WhereRaisesGenerated(params) ==
    \E k \in DOMAIN params : k \in {<<"_", "_", "p", d>> : d \in {"0", "1", "2", "3", "4"}}

\* where raises ValueError on a reserved parameter name, before it appends.
WhereRaises(params) == \E k \in DOMAIN params : StartsWith(k, <<"_", "_", "p">>)

where_prepend(s, sql, params) ==
    IF WhereRaises(params) THEN s
    ELSE [s EXCEPT !._filters = <<[sql |-> sql, p |-> params]>> \o @]

where(s, sql, params) ==
    IF WhereRaises(params) THEN s
    ELSE [s EXCEPT !._filters = Append(@, [sql |-> sql, p |-> params])]

order_by_keep(s, order, direction) ==
    [s EXCEPT !._order = order, !._sort_dir = IF direction = None THEN @ ELSE direction]

order_by(s, order, direction) == [s EXCEPT !._order = order, !._sort_dir = direction]

Max(a, b) == IF a >= b THEN a ELSE b
Min(a, b) == IF a <= b THEN a ELSE b

\* q[page] and q[page, page_size]
getitem_page(s, key) == [s EXCEPT !._page = Max(1, key)]

getitem_tuple(s, key0, key1) ==
    [s EXCEPT !._page = Max(1, key0), !._page_size = Max(1, Min(100, key1))]

crosswalk(s, cw) == [s EXCEPT !._crosswalk = cw]

-----------------------------------------------------------------------------
\* SearchQuery: SQL building.  A statement is [sql |-> tokens, params |-> map].

RankQ == <<"r", "a", "n", "k", "_", "q">>
LimitName == <<"l", "i", "m", "i", "t">>
MaxBooksName == <<"m", "a", "x", "_", "b", "o", "o", "k", "s">>

RECURSIVE UpdateAll(_, _)
UpdateAll(params, clauses) ==
    IF clauses = <<>> THEN params
    ELSE UpdateAll(Update(params, Head(clauses).p), Tail(clauses))

_params(s) == UpdateAll(UpdateAll(EmptyParams, s._search), s._filters)

FallbackAscending == <<Lit("downloads"), Lit("ASC")>>
FallbackOrder == <<Lit("downloads"), Lit("DESC")>>

\* The search clause relevance ranks against.
RankClauseFirst(s) == s._search[1]
RankClause(s) == s._search[Len(s._search)]

\* Returns the ORDER BY expression and the params dict it may have written to.
_order_sql(s, params) ==
    IF s._order = "relevance" /\ s._search # <<>>
    THEN LET c == RankClause(s)
             val == IF DOMAIN c.p # {} THEN c.p[CHOOSE k \in DOMAIN c.p : TRUE] ELSE <<>>
             ps == Update(params, OneParam(RankQ, RemoveChar(val, "%")))
         IN  IF \E i \in 1..Len(c.sql) : c.sql[i] = Lit("<%")
             THEN [sql |-> <<Lit("word_similarity("), Ph(RankQ), Lit(","), Lit(c.col),
                            Lit(")"), Lit("DESC"), Lit(","), Lit("downloads"), Lit("DESC")>>,
                   params |-> ps]
             ELSE [sql |-> <<Lit("ts_rank_cd("), Lit(c.col), Lit(","),
                            Lit("websearch_to_tsquery('english',"), Ph(RankQ), Lit(")"),
                            Lit(")"), Lit("DESC"), Lit(","), Lit("downloads"), Lit("DESC")>>,
                   params |-> ps]
    ELSE IF s._order = "random" THEN [sql |-> <<Lit("RANDOM()")>>, params |-> params]
    ELSE IF s._order \notin DOMAIN _ORDER_COLUMNS THEN [sql |-> FallbackOrder, params |-> params]
    ELSE LET e == _ORDER_COLUMNS[s._order]
             direction == IF s._sort_dir # None THEN s._sort_dir ELSE e.dir
         IN  [sql |-> <<Lit(e.col), Lit(Upper(direction))>>
                        \o (IF e.nulls # None THEN <<Lit("NULLS"), Lit(e.nulls)>> ELSE <<>>),
              params |-> params]

build(s) ==
    LET o == _order_sql(s, _params(s))
        limit == s._page_size
        offset == (s._page - 1) * s._page_size
        search_sql == JoinAnd([i \in 1..Len(s._search) |-> s._search[i].sql])
        filter_sql == JoinAnd([i \in 1..Len(s._filters) |-> s._filters[i].sql])
        tail == <<Lit("ORDER BY")>> \o o.sql
                \o <<Lit("LIMIT"), Num(limit), Lit("OFFSET"), Num(offset)>>
    IN  [sql |->
            IF search_sql # <<>> /\ filter_sql # <<>>
            THEN <<Lit("SELECT"), Lit("_SELECT"), Lit("FROM"), Lit("("), Lit("SELECT"),
                   Lit("_SUBQUERY"), Lit("FROM"), Lit("mv_books_dc"), Lit("WHERE")>>
                 \o search_sql \o <<Lit(")"), Lit("t"), Lit("WHERE")>> \o filter_sql \o tail
            ELSE IF search_sql # <<>>
            THEN <<Lit("SELECT"), Lit("_SELECT"), Lit("FROM"), Lit("mv_books_dc"),
                   Lit("WHERE")>> \o search_sql \o tail
            ELSE IF filter_sql # <<>>
            THEN <<Lit("SELECT"), Lit("_SELECT"), Lit("FROM"), Lit("mv_books_dc"),
                   Lit("WHERE")>> \o filter_sql \o tail
            ELSE <<Lit("SELECT"), Lit("_SELECT"), Lit("FROM"), Lit("mv_books_dc")>> \o tail,
         params |-> o.params]

build_count(s) ==
    LET search_sql == JoinAnd([i \in 1..Len(s._search) |-> s._search[i].sql])
        filter_sql == JoinAnd([i \in 1..Len(s._filters) |-> s._filters[i].sql])
    IN  [sql |->
            IF search_sql # <<>> /\ filter_sql # <<>>
            THEN <<Lit("SELECT"), Lit("COUNT(*)"), Lit("FROM"), Lit("("), Lit("SELECT"),
                   Lit("_SUBQUERY"), Lit("FROM"), Lit("mv_books_dc"), Lit("WHERE")>>
                 \o search_sql \o <<Lit(")"), Lit("t"), Lit("WHERE")>> \o filter_sql
            ELSE IF search_sql # <<>>
            THEN <<Lit("SELECT"), Lit("COUNT(*)"), Lit("FROM"), Lit("mv_books_dc"),
                   Lit("WHERE")>> \o search_sql
            ELSE IF filter_sql # <<>>
            THEN <<Lit("SELECT"), Lit("COUNT(*)"), Lit("FROM"), Lit("mv_books_dc"),
                   Lit("WHERE")>> \o filter_sql
            ELSE <<Lit("SELECT"), Lit("COUNT(*)"), Lit("FROM"), Lit("mv_books_dc")>>,
         params |-> _params(s)]

\* The statement get_top_subjects_for_query compiles and its parameters.
top_subjects_statement(s, limit, max_books) ==
    LET mb == Max(1, Min(5000, max_books))
        lim == Max(1, Min(100, limit))
        o == _order_sql(s, _params(s))
        search_sql == JoinAnd([i \in 1..Len(s._search) |-> s._search[i].sql])
        filter_sql == JoinAnd([i \in 1..Len(s._filters) |-> s._filters[i].sql])
        where_parts == SelectSeq(<<search_sql, filter_sql>>, LAMBDA part : part # <<>>)
        where_clause == IF where_parts # <<>> THEN <<Lit("WHERE")>> \o JoinAnd(where_parts)
                        ELSE <<>>
    IN  [sql |-> <<Lit("WITH matched_books AS ( SELECT book_id FROM mv_books_dc")>>
                 \o where_clause \o <<Lit("ORDER BY")>> \o o.sql
                 \o <<Lit("LIMIT"), Ph(MaxBooksName), Lit(")"),
                      Lit("SELECT s.pk, s.subject, COUNT(*) FROM matched_books mb JOIN mn_books_subjects mbs JOIN subjects s GROUP BY s.pk, s.subject ORDER BY count DESC"),
                      Lit("LIMIT"), Ph(LimitName)>>,
         params |-> Update(Update(o.params, OneParam(LimitName, IntVal(lim))),
                           OneParam(MaxBooksName, IntVal(mb)))]

-----------------------------------------------------------------------------
\* Inputs of the builder calls.

Texts == {<<>>, <<" ">>, <<"a">>, <<" ", "b", "%">>}

EtextNrs == {1, 2}

Orders == OrderBy \cup {"bogus"}
Directions == SortDirection \cup {None}

NName == <<"n">>

\* where(sql, **params) as the callers and the tests use it, and with names
\* the builder itself uses.
WhereCalls ==
    { [sql |-> <<Lit("downloads"), Lit(">"), Ph(NName)>>, params |-> OneParam(NName, IntVal(5))],
      [sql |-> <<Lit("COALESCE(array_length(creator_ids, 1), 0)"), Lit(">"), Ph(NName)>>,
       params |-> OneParam(NName, IntVal(2))],
      [sql |-> <<Lit("title"), Lit("="), Ph(RankQ)>>, params |-> OneParam(RankQ, <<"z">>)],
      [sql |-> <<Lit("downloads"), Lit("<"), Ph(LimitName)>>,
       params |-> OneParam(LimitName, IntVal(900))],
      [sql |-> <<Lit("book_id"), Lit("="), Ph(PName(0))>>, params |-> OneParam(PName(0), IntVal(7))] }

NumClauses(s) == Len(s._search) + Len(s._filters)

NoCall == [op |-> "none", ret |-> "none", txt |-> <<>>]
NoSearch == [txt |-> <<>>, search_type |-> None]
NoOrder == [order |-> None, direction |-> None]

\* The calls that add clauses, as values, and their replay on a query.
NoWhere == [sql |-> <<>>, params |-> EmptyParams]

SearchCall(txt, st) == [op |-> "search", txt |-> txt, st |-> st, nr |-> 0, w |-> NoWhere]
EtextCall(nr) == [op |-> "etext", txt |-> <<>>, st |-> None, nr |-> nr, w |-> NoWhere]
PublicDomainCall == [op |-> "public_domain", txt |-> <<>>, st |-> None, nr |-> 0, w |-> NoWhere]
WhereCall(w) == [op |-> "where", txt |-> <<>>, st |-> None, nr |-> 0, w |-> w]

Apply(s, c) ==
    CASE c.op = "search" -> search(s, c.txt, "book", c.st)
      [] c.op = "etext" -> etext(s, c.nr)
      [] c.op = "public_domain" -> public_domain(s)
      [] c.op = "where" -> where(s, c.w.sql, c.w.params)

RECURSIVE Replay(_, _)
Replay(s, calls) == IF calls = <<>> THEN s ELSE Replay(Apply(s, Head(calls)), Tail(calls))

-----------------------------------------------------------------------------
\* Builder calls on q.

Search(txt, field, search_type) ==
    /\ pc = "idle"
    /\ NumClauses(q) < MaxClauses \/ Strip(txt) = <<>>
    /\ q' = search(q, txt, field, search_type)
    /\ call' = [op |-> "search", ret |-> "self", txt |-> txt]
    /\ last_search' = IF Strip(txt) # <<>>
                      THEN [txt |-> txt, search_type |-> search_type]
                      ELSE last_search
    /\ hist' = IF Strip(txt) # <<>> THEN Append(hist, SearchCall(txt, search_type)) ELSE hist
    /\ UNCHANGED <<last_order, evars>>

Etext(nr) ==
    /\ pc = "idle"
    /\ NumClauses(q) < MaxClauses
    /\ q' = etext(q, nr)
    /\ call' = [op |-> "etext", ret |-> "self", txt |-> <<>>]
    /\ hist' = Append(hist, EtextCall(nr))
    /\ UNCHANGED <<last_search, last_order, evars>>

PublicDomain ==
    /\ pc = "idle"
    /\ NumClauses(q) < MaxClauses
    /\ q' = public_domain(q)
    /\ call' = [op |-> "public_domain", ret |-> "self", txt |-> <<>>]
    /\ hist' = Append(hist, PublicDomainCall)
    /\ UNCHANGED <<last_search, last_order, evars>>

Where(w) ==
    /\ pc = "idle"
    /\ NumClauses(q) < MaxClauses \/ WhereRaises(w.params)
    /\ q' = where(q, w.sql, w.params)
    /\ call' = [op |-> "where", ret |-> IF WhereRaises(w.params) THEN "raise" ELSE "self",
                txt |-> <<>>]
    /\ hist' = IF WhereRaises(w.params) THEN hist ELSE Append(hist, WhereCall(w))
    /\ UNCHANGED <<last_search, last_order, evars>>

OrderByCall(order, direction) ==
    /\ pc = "idle"
    /\ q' = order_by(q, order, direction)
    /\ call' = [op |-> "order_by", ret |-> "self", txt |-> <<>>]
    /\ last_order' = [order |-> order, direction |-> direction]
    /\ UNCHANGED <<last_search, hist, evars>>

GetItemPage(key) ==
    /\ pc = "idle"
    /\ q' = getitem_page(q, key)
    /\ call' = [op |-> "getitem", ret |-> "self", txt |-> <<>>]
    /\ UNCHANGED <<last_search, last_order, hist, evars>>

GetItemTuple(key0, key1) ==
    /\ pc = "idle"
    /\ q' = getitem_tuple(q, key0, key1)
    /\ call' = [op |-> "getitem", ret |-> "self", txt |-> <<>>]
    /\ UNCHANGED <<last_search, last_order, hist, evars>>

SetCrosswalk(cw) ==
    /\ pc = "idle"
    /\ q' = crosswalk(q, cw)
    /\ call' = [op |-> "crosswalk", ret |-> "self", txt |-> <<>>]
    /\ UNCHANGED <<last_search, last_order, hist, evars>>

-----------------------------------------------------------------------------
\* FullTextSearch.

CROSSWALK_MAP == [cw \in {"pg", "opds"} |->
                    CASE cw = "pg" -> "crosswalk_pg" [] cw = "opds" -> "crosswalk_opds"]

query(cw) == [SearchQuery EXCEPT !._crosswalk = cw]

\* The columns of _SELECT: the fields of a row fetched with build().
SelectColumns ==
    {"book_id", "title", "all_authors", "downloads", "release_date", "copyrighted",
     "lang_codes", "creator_ids", "creator_names", "creator_roles", "subject_ids",
     "subject_names", "bookshelf_ids", "bookshelf_names", "locc_codes", "is_audio",
     "dcmitypes", "publisher", "summary", "credits", "reading_level", "coverpage",
     "format_filenames", "format_filetypes", "format_hr_filetypes", "format_mediatypes",
     "format_extents"}

\* The row attributes a transformer reads on every row (crosswalks.py).
BuilderColumns ==
    {"creator_names", "creator_roles", "creator_ids", "creator_born_floor",
     "creator_born_ceil", "creator_died_floor", "creator_died_ceil", "subject_names",
     "subject_ids", "bookshelf_names", "bookshelf_ids", "format_filenames",
     "format_filetypes", "format_hr_filetypes", "format_mediatypes", "format_extents"}

ColumnsRead(renderer) ==
    BuilderColumns \cup
    (IF renderer = "crosswalk_pg"
     THEN {"lang_codes", "book_id", "title", "release_date", "downloads", "coverpage"}
     ELSE {"locc_codes", "is_audio", "book_id", "title", "lang_codes", "release_date",
           "summary", "credits", "reading_level", "dcmitypes", "copyrighted", "downloads",
           "publisher"})

\* _transform raises KeyError when the crosswalk has no renderer, and the
\* renderer raises AttributeError when it reads a field the row lacks.
TransformRaises(cw, custom) ==
    /\ ~(cw = "custom" /\ custom)
    /\ \/ cw \notin DOMAIN CROSSWALK_MAP
       \/ ~(ColumnsRead(CROSSWALK_MAP[cw]) \subseteq SelectColumns)

_transform(row, cw, custom) ==
    IF cw = "custom" /\ custom THEN [row |-> row, by |-> "custom_transformer"]
    ELSE [row |-> row, by |-> CROSSWALK_MAP[cw]]

TotalPagesFloor(n, page_size) == Max(1, n \div page_size)
TotalPages(n, page_size) == Max(1, (n + page_size - 1) \div page_size)

ClampPageLow(page, pages) == Max(1, page)
ClampPage(page, pages) == Max(1, Min(page, pages))

\* The backing store holds one snapshot for the two statements of an execute:
\* the fetch statement pages over the rows the count statement counted (the
\* two statements of the specifications executed here bind the same values
\* to the same predicates).
ParseNum(tok) == CHOOSE n \in 0..(100 * (MaxPage + 2)) : IntVal(n) = tok.s

\* The rows a fetch statement returns when its WHERE matches `matched` rows:
\* LIMIT and OFFSET are read from the statement text.
FetchRows(stmt, matched) ==
    LET limit == ParseNum(stmt.sql[Len(stmt.sql) - 2])
        offset == ParseNum(stmt.sql[Len(stmt.sql)])
        n == Max(0, Min(limit, matched - offset))
    IN  [i \in 1..n |-> offset + i]

Totals == 0..MaxTotal \cup {100, 101, 250}

NoOutcome == [kind |-> "none", results |-> <<>>, page |-> 0, page_size |-> 0,
              total |-> 0, total_pages |-> 0]

\* No crosswalk call has been made; no concurrent caller.
NoRender == [step |-> "idle"]
NoThreads == <<>>

\* No format_field call has been made.
NoField == [key |-> "", value |-> <<>>, out |-> <<>>, step |-> "idle"]

\* Sessions.  open: the sessions not yet closed; opened: the sessions the call
\* in progress has created, the last of them the one its statements run in;
\* log: the session each statement of db_log was executed in; replies: the
\* store's reply to each.
NoSessions == [open |-> 0, opened |-> 0, log |-> <<>>, replies |-> <<>>]

\* with self.Session() as session:
OpenSession(ss) == [ss EXCEPT !.open = @ + 1, !.opened = @ + 1]

\* session.execute(text(sql), params)
Run(ss) == [ss EXCEPT !.log = Append(@, ss.opened)]

Reply(ss, r) == [ss EXCEPT !.replies = Append(@, r)]

\* The with block is left without closing the session.
KeepSession(ss) == ss

\* The with block is left: the session is closed.
CloseSession(ss) == [ss EXCEPT !.open = @ - 1]

SetCustomTransformer ==
    /\ pc = "idle"
    /\ ~_custom_transformer
    /\ _custom_transformer' = TRUE
    /\ UNCHANGED <<bvars, fmt, xw, thr, pc, req_page, db_log, total, total_pages, rows, outcome, sess>>

\* execute: the session is opened, the count statement is built and sent.
ExecCount ==
    /\ pc = "idle"
    /\ pc' = "count"
    /\ req_page' = q._page
    /\ db_log' = <<build_count(q)>>
    /\ sess' = Run(OpenSession(sess))
    /\ UNCHANGED <<bvars, fmt, xw, thr, _custom_transformer, total, total_pages, rows, outcome>>

\* execute: the count arrives, the page is clamped, the fetch statement is
\* built from the clamped page and sent.
ExecFetch(scalar) ==
    /\ pc = "count"
    /\ pc' = "fetch"
    /\ total' = scalar
    /\ total_pages' = TotalPages(scalar, q._page_size)
    /\ q' = [q EXCEPT !._page = ClampPage(q._page, total_pages')]
    /\ db_log' = Append(db_log, build(q'))
    /\ sess' = Run(Reply(sess, "ok"))
    /\ UNCHANGED <<call, last_search, last_order, hist, fmt, xw, thr, _custom_transformer, req_page,
                   rows,
                   outcome>>

\* execute: the rows arrive, the session is closed, every row is rendered
\* and the envelope returned; a row without renderer raises.
ExecReturn ==
    /\ pc = "fetch"
    /\ pc' = "done"
    /\ rows' = FetchRows(db_log[2], total)
    /\ sess' = CloseSession(Reply(sess, "ok"))
    /\ outcome' =
          IF rows' # <<>> /\ TransformRaises(q._crosswalk, _custom_transformer)
          THEN [NoOutcome EXCEPT !.kind = "raised"]
          ELSE [kind |-> "returned",
                results |-> [i \in 1..Len(rows') |->
                                _transform(rows'[i], q._crosswalk, _custom_transformer)],
                page |-> q._page, page_size |-> q._page_size,
                total |-> total, total_pages |-> total_pages]
    /\ UNCHANGED <<bvars, fmt, xw, thr, _custom_transformer, req_page, db_log, total, total_pages>>

\* The caller takes the result; the locals of the call are gone.
ExecDone ==
    /\ pc = "done"
    /\ pc' = "idle"
    /\ req_page' = 0
    /\ db_log' = <<>>
    /\ total' = 0
    /\ total_pages' = 0
    /\ rows' = <<>>
    /\ outcome' = NoOutcome
    /\ sess' = [NoSessions EXCEPT !.open = sess.open]
    /\ UNCHANGED <<bvars, fmt, xw, thr, _custom_transformer>>

-----------------------------------------------------------------------------
\* Specifications.

Init ==
    /\ q = query("full")
    /\ call = NoCall
    /\ last_search = NoSearch
    /\ last_order = NoOrder
    /\ hist = <<>>
    /\ _custom_transformer = FALSE
    /\ pc = "idle"
    /\ req_page = 0
    /\ db_log = <<>>
    /\ total = 0
    /\ total_pages = 0
    /\ rows = <<>>
    /\ outcome = NoOutcome
    /\ sess = NoSessions
    /\ fmt = NoField
    /\ xw = NoRender
    /\ thr = NoThreads

Next ==
    \/ \E txt \in Texts, field \in SearchField, st \in SearchType : Search(txt, field, st)
    \/ \E nr \in EtextNrs : Etext(nr)
    \/ PublicDomain
    \/ \E w \in WhereCalls : Where(w)
    \/ \E o \in {"relevance", "downloads"} : OrderByCall(o, None)

\* The builder: every sequence of clause-adding calls on a new query, ordered
\* by relevance or by downloads.
Spec == Init /\ [][Next]_vars

NextOrder ==
    \/ \E txt \in Texts, field \in SearchField, st \in SearchType : Search(txt, field, st)
    \/ PublicDomain
    \/ \E o \in Orders, d \in Directions : OrderByCall(o, d)

\* Ordering: every key and direction on queries with and without search clauses.
SpecOrder == Init /\ [][NextOrder]_vars

\* Specifications handed to execute: built by the builder on a query of
\* any crosswalk.
Built(s) ==
    { s,
      search(s, <<"a">>, "book", "fts"),
      etext(s, 1),
      etext(search(s, <<"a">>, "book", "fuzzy"), 2),
      order_by(public_domain(search(s, <<"a">>, "book", "fts")), "relevance", None) }

PageInputs == (-1)..MaxPage
SizeInputs == 0..MaxSize \cup {100, 101}

InitExec ==
    /\ \E cw \in Crosswalk : q \in Built(query(cw))
    /\ call = NoCall
    /\ last_search = NoSearch
    /\ last_order = NoOrder
    /\ hist = <<>>
    /\ _custom_transformer = FALSE
    /\ pc = "idle"
    /\ req_page = 0
    /\ db_log = <<>>
    /\ total = 0
    /\ total_pages = 0
    /\ rows = <<>>
    /\ outcome = NoOutcome
    /\ sess = NoSessions
    /\ fmt = NoField
    /\ xw = NoRender
    /\ thr = NoThreads

NextExec ==
    \/ \E key \in PageInputs : GetItemPage(key)
    \/ \E key0 \in PageInputs, key1 \in SizeInputs : GetItemTuple(key0, key1)
    \/ \E cw \in Crosswalk : SetCrosswalk(cw)
    \/ SetCustomTransformer
    \/ ExecCount
    \/ \E scalar \in Totals : ExecFetch(scalar)
    \/ ExecReturn
    \/ ExecDone

\* The executor: pagination and execute on a built specification.
SpecExec == InitExec /\ [][NextExec]_vars

-----------------------------------------------------------------------------
\* Pagination of execute.

\* ceil(a / b), stated by its defining inequalities.
CeilDiv(a, b) == CHOOSE k \in 0..a : k * b >= a /\ (k = 0 \/ (k - 1) * b < a)

\* C1: for every total >= 0 the count query returns and every page size in
\* [1,100], the envelope execute returns has total_pages = max(1,
\* ceil(total / page_size)) and 1 <= page <= total_pages whatever page was
\* asked for; with total = 0 execute returns without error total = 0,
\* results = [], total_pages = 1 and page = 1.
C1_PageEnvelope ==
    pc = "done" =>
        /\ q._page_size \in 1..100
        /\ outcome.kind = "returned" =>
              /\ outcome.total = total
              /\ outcome.page_size = q._page_size
              /\ outcome.total_pages = Max(1, CeilDiv(total, q._page_size))
              /\ 1 <= outcome.page
              /\ outcome.page <= outcome.total_pages
        /\ total = 0 =>
              outcome = [kind |-> "returned", results |-> <<>>, page |-> 1,
                         page_size |-> q._page_size, total |-> 0, total_pages |-> 1]

\* execute has returned a page for a request beyond the last of several pages.
C1_Witness ==
    /\ pc = "done"
    /\ outcome.kind = "returned"
    /\ total > 0
    /\ outcome.total_pages > 1
    /\ req_page > outcome.total_pages
    /\ outcome.page = outcome.total_pages

\* The last four tokens of a fetch statement.
LimitOffset(sql) == SubSeq(sql, Len(sql) - 3, Len(sql))

\* C2: execute sends the count statement first and the fetch statement second,
\* and the fetch statement is compiled after the clamp: its LIMIT is the page
\* size and its OFFSET is (clamped page - 1) * page size, so with total > 0
\* the offset is below total, and a request beyond the last page is served
\* the last page.
C2_CountClampFetch ==
    /\ pc = "count" => Len(db_log) = 1 /\ db_log[1].sql[2] = Lit("COUNT(*)")
    /\ pc \in {"fetch", "done"} =>
          LET clamped == IF req_page > total_pages THEN total_pages ELSE req_page
              offset == (clamped - 1) * q._page_size
          IN  /\ Len(db_log) = 2
              /\ db_log[1].sql[2] = Lit("COUNT(*)")
              /\ db_log[2].sql[2] = Lit("_SELECT")
              /\ q._page = clamped
              /\ LimitOffset(db_log[2].sql) =
                    <<Lit("LIMIT"), Num(q._page_size), Lit("OFFSET"), Num(offset)>>
              /\ total > 0 => offset < total
              /\ total > 0 /\ req_page > total_pages =>
                    /\ offset = (total_pages - 1) * q._page_size
                    /\ pc = "done" => rows # <<>>

\* A page beyond the last was asked for and the last page, with rows, was fetched.
C2_Witness ==
    /\ pc = "done"
    /\ total > 0
    /\ total_pages > 1
    /\ req_page > total_pages
    /\ rows # <<>>
    /\ rows[1] = (total_pages - 1) * q._page_size + 1

-----------------------------------------------------------------------------
\* Reading compiled statements.

\* The tokens from FROM up to the last ORDER BY of the statement (or its end).
FromPart(sql) ==
    LET ends == {i \in 1..Len(sql) : sql[i] = Lit("ORDER BY")}
        last == IF ends = {} THEN Len(sql)
                ELSE (CHOOSE i \in ends : \A j \in ends : j <= i) - 1
    IN  SubSeq(sql, 3, last)

\* The ORDER BY expression of a fetch statement.
OrderPart(sql) ==
    LET ends == {i \in 1..Len(sql) : sql[i] = Lit("ORDER BY")}
        first == CHOOSE i \in ends : \A j \in ends : j <= i
    IN  SubSeq(sql, first + 1, Len(sql) - 4)

\* Every placeholder replaced by the value the parameter map binds to it.
Resolve(tokens, params) ==
    [i \in 1..Len(tokens) |->
        IF tokens[i].t = "ph" /\ tokens[i].s \in DOMAIN params
        THEN [t |-> "val", s |-> params[tokens[i].s]]
        ELSE tokens[i]]

RECURSIVE SplitAnd(_)
SplitAnd(tokens) ==
    LET ands == {i \in 1..Len(tokens) : tokens[i] = Lit("AND")}
        i == CHOOSE j \in ands : \A k \in ands : j <= k
    IN  IF tokens = <<>> THEN {}
        ELSE IF ands = {} THEN {tokens}
        ELSE {SubSeq(tokens, 1, i - 1)} \cup SplitAnd(SubSeq(tokens, i + 1, Len(tokens)))

\* The predicates a statement conjoins, with their values: those of the inner
\* filter (the subquery), and those applied to the selected table directly.
Conjuncts(stmt) ==
    LET body == FromPart(stmt.sql)
        ws == {i \in 1..Len(body) : body[i] = Lit("WHERE")}
        w1 == CHOOSE i \in ws : \A j \in ws : i <= j
        w2 == CHOOSE i \in ws : \A j \in ws : j <= i
    IN  IF ws = {} THEN [inner |-> {}, outer |-> {}]
        ELSE IF w1 = w2
        THEN [inner |-> {},
              outer |-> SplitAnd(Resolve(SubSeq(body, w1 + 1, Len(body)), stmt.params))]
        ELSE [inner |-> SplitAnd(Resolve(SubSeq(body, w1 + 1, w2 - 3), stmt.params)),
              outer |-> SplitAnd(Resolve(SubSeq(body, w2 + 1, Len(body)), stmt.params))]

\* The parameter maps of the clauses, search clauses first.
ClauseParams(s) ==
    [i \in 1..Len(s._search) |-> s._search[i].p]
        \o [i \in 1..Len(s._filters) |-> s._filters[i].p]

\* The names written into the parameter map when a statement is compiled.
CompileTimeNames(s) ==
    (IF s._order = "relevance" /\ s._search # <<>> THEN {RankQ} ELSE {})
        \cup {LimitName, MaxBooksName}

LimitInputs == {0, 15, 101}
MaxBooksInputs == {0, 1000, 5001}

-----------------------------------------------------------------------------
\* Parameter binding.

\* C3: every parameter name bound into the compiled statements is bound by
\* exactly one clause: no two clauses bind the same name and no clause binds
\* a name that is written at compile time (rank_q, limit, max_books).
C3_UniqueNames ==
    LET ps == ClauseParams(q)
    IN  /\ \A i, j \in 1..Len(ps) : i # j => (DOMAIN ps[i]) \cap (DOMAIN ps[j]) = {}
        /\ \A i \in 1..Len(ps) : (DOMAIN ps[i]) \cap CompileTimeNames(q) = {}

\* The statement binds to every name of every clause the value the clause
\* was created with.
Enforced(s, stmt) ==
    \A i \in 1..Len(ClauseParams(s)) : \A k \in DOMAIN ClauseParams(s)[i] :
        k \in DOMAIN stmt.params /\ stmt.params[k] = ClauseParams(s)[i][k]

\* C4: the parameter map compiled by build, build_count and
\* get_top_subjects_for_query maps the placeholder of every clause to the
\* value passed in the call that created the clause.
C4_OwnValues ==
    /\ Enforced(q, build(q))
    /\ Enforced(q, build_count(q))
    /\ \A limit \in LimitInputs, max_books \in MaxBooksInputs :
          Enforced(q, top_subjects_statement(q, limit, max_books))

-----------------------------------------------------------------------------
\* Append-only composition.

IsAppend(old, new) == Len(new) = Len(old) + 1 /\ SubSeq(new, 1, Len(old)) = old

ClauseCall ==
    \/ \E txt \in Texts, field \in SearchField, st \in SearchType : Search(txt, field, st)
    \/ \E nr \in EtextNrs : Etext(nr)
    \/ PublicDomain
    \/ \E w \in WhereCalls : Where(w)

\* C5: a search, structural-filter or where call that returns returns the
\* instance with exactly one clause added at the end of one of the two lists
\* and the other list as it was; a blank search adds nothing and leaves the
\* counter; no call removes, changes or reorders a clause.
C5_AppendOnly ==
    [][ClauseCall =>
          /\ call'.ret = "self" =>
                IF call'.op = "search" /\ Strip(call'.txt) = <<>>
                THEN /\ q'._search = q._search
                     /\ q'._filters = q._filters
                     /\ q'._param_counter = q._param_counter
                ELSE \/ IsAppend(q._search, q'._search) /\ q'._filters = q._filters
                     \/ IsAppend(q._filters, q'._filters) /\ q'._search = q._search
          /\ Len(q'._search) >= Len(q._search)
          /\ Len(q'._filters) >= Len(q._filters)
          /\ SubSeq(q'._search, 1, Len(q._search)) = q._search
          /\ SubSeq(q'._filters, 1, Len(q._filters)) = q._filters]_vars

\* A second call of the same filter method has returned.
C5_Witness ==
    /\ call.op = "etext"
    /\ call.ret = "self"
    /\ Len(q._search) = 1
    /\ Len(q._filters) = 2
    /\ q._filters[1].sql[1] = Lit("book_id")

\* The query built by the calls made, with the i-th and the next exchanged.
Exchanged(i) ==
    order_by(Replay(query("full"), [hist EXCEPT ![i] = hist[i + 1], ![i + 1] = hist[i]]),
             q._order, q._sort_dir)

\* C6: for any two calls A and B, A then B and B then A compile, in build and
\* in build_count, to the same conjoined predicates with the same values.
C6_Commute ==
    \A i \in 1..(Len(hist) - 1) :
        /\ Conjuncts(build(Exchanged(i))) = Conjuncts(build(q))
        /\ Conjuncts(build_count(Exchanged(i))) = Conjuncts(build_count(q))

-----------------------------------------------------------------------------
\* Ordering.

Relevant == q._order = "relevance" /\ q._search # <<>>

RankExpression ==
    IF last_search.search_type = "fuzzy"
    THEN <<Lit("word_similarity("), Ph(RankQ), Lit(","), Lit("book_text"), Lit(")"),
           Lit("DESC"), Lit(","), Lit("downloads"), Lit("DESC")>>
    ELSE <<Lit("ts_rank_cd("), Lit("tsvec"), Lit(","),
           Lit("websearch_to_tsquery('english',"), Ph(RankQ), Lit(")"), Lit(")"),
           Lit("DESC"), Lit(","), Lit("downloads"), Lit("DESC")>>

\* C7 as stated: under relevance the ranking parameter is the text passed to
\* the last non-blank search call.
C7_RankByLastText ==
    Relevant =>
        /\ OrderPart(build(q).sql) = RankExpression
        /\ build(q).params[RankQ] = last_search.txt

\* C7, amended: under relevance with a search clause the ORDER BY ranks against
\* the last non-blank search call only: its column and its mode's function,
\* descending, then downloads descending; the ranking parameter is that
\* call's text with surrounding whitespace stripped and every "%" removed.
C7_RankByLastSearch ==
    Relevant =>
        /\ OrderPart(build(q).sql) = RankExpression
        /\ build(q).params[RankQ] = RemoveChar(Strip(last_search.txt), "%")

\* Relevance is asked for after a strict search followed by a fuzzy one.
C7_Witness ==
    /\ Relevant
    /\ Len(q._search) = 2
    /\ q._search[1].col = "tsvec"
    /\ last_search.search_type = "fuzzy"
    /\ q._search[1].p # q._search[2].p

\* C8: relevance without a search clause, and an ordering key that is not
\* recognised, compile to downloads descending.
C8_FallbackDownloads ==
    (q._order = "relevance" /\ q._search = <<>>) \/ q._order \notin OrderBy =>
        /\ OrderPart(build(q).sql) = <<Lit("downloads"), Lit("DESC")>>
        /\ \A limit \in LimitInputs, max_books \in MaxBooksInputs :
              \E i \in 1..Len(top_subjects_statement(q, limit, max_books).sql) :
                 SubSeq(top_subjects_statement(q, limit, max_books).sql, i, i + 3)
                    = <<Lit("ORDER BY"), Lit("downloads"), Lit("DESC"), Lit("LIMIT")>>

\* Relevance with an ascending direction is asked for on a query that has a
\* filter and no search clause.
C8_Witness ==
    /\ q._order = "relevance"
    /\ q._sort_dir = "asc"
    /\ q._search = <<>>
    /\ q._filters # <<>>

\* C9: downloads, title, author and release_date order by their column in the
\* direction of the last order_by call, or else in the default of the key;
\* NULLS LAST follows exactly for author and release_date; random orders by
\* RANDOM() whatever the direction.
C9_DirectionAndNulls ==
    LET key == last_order.order
        given == last_order.direction
        column == CASE key = "downloads" -> "downloads"
                    [] key = "title" -> "title"
                    [] key = "author" -> "all_authors"
                    [] key = "release_date" -> "CAST(release_date AS date)"
        default == IF key \in {"downloads", "release_date"} THEN "DESC" ELSE "ASC"
        dir == CASE given = "asc" -> "ASC" [] given = "desc" -> "DESC" [] OTHER -> default
        nulls == IF key \in {"author", "release_date"}
                 THEN <<Lit("NULLS"), Lit("LAST")>> ELSE <<>>
    IN  /\ key \in {"downloads", "title", "author", "release_date"} =>
              OrderPart(build(q).sql) = <<Lit(column), Lit(dir)>> \o nulls
        /\ key = "random" => OrderPart(build(q).sql) = <<Lit("RANDOM()")>>

\* order_by(AUTHOR) without a direction was the last order_by call, on a query
\* with a search clause.
C9_Witness ==
    /\ last_order = [order |-> "author", direction |-> None]
    /\ q._order = "author"
    /\ q._search # <<>>

\* C10: build_count and build compile the same predicates with the same
\* values in the same structure.
C10_SameConjunction ==
    /\ FromPart(build(q).sql) = FromPart(build_count(q).sql)
    /\ Conjuncts(build(q)) = Conjuncts(build_count(q))

-----------------------------------------------------------------------------
\* The raw-escape filter and its reserved parameter names.

PageName == <<"p">>
NearName == <<"_", "p", "0">>

\* where(sql, **params) with no parameter, with accepted names, and with
\* names that start with "__p": the generated form, another form, and one
\* among two parameters.
WhereArgs ==
    { [sql |-> <<Lit("is_audio = false")>>, params |-> EmptyParams],
      [sql |-> <<Lit("downloads"), Lit(">"), Ph(NName)>>, params |-> OneParam(NName, IntVal(5))],
      [sql |-> <<Lit("book_id"), Lit("<"), Ph(NearName)>>,
       params |-> OneParam(NearName, IntVal(9))],
      [sql |-> <<Lit("book_id"), Lit("="), Ph(PName(0))>>,
       params |-> OneParam(PName(0), IntVal(7))],
      [sql |-> <<Lit("book_id"), Lit("="), Ph(PName(0) \o <<"x">>)>>,
       params |-> OneParam(PName(0) \o <<"x">>, IntVal(7))],
      [sql |-> <<Lit("downloads"), Lit(">"), Ph(PageName), Lit("AND"), Lit("book_id"),
                 Lit("="), Ph(<<"_", "_", "p">>)>>,
       params |-> Update(OneParam(PageName, IntVal(5)), OneParam(<<"_", "_", "p">>, IntVal(7)))] }

NextWhere ==
    \/ \E txt \in Texts, field \in SearchField, st \in SearchType : Search(txt, field, st)
    \/ \E nr \in EtextNrs : Etext(nr)
    \/ \E w \in WhereArgs : Where(w)

\* The raw-escape filter among search and filter calls.
SpecWhere == Init /\ [][NextWhere]_vars

\* The name starts with the prefix of the generated names.
Reserved(k) == Len(k) >= 3 /\ k[1] = "_" /\ k[2] = "_" /\ k[3] = "p"

\* C11: a where call with a parameter name that starts with "__p" fails at
\* call time and leaves the filter list, the search list and the parameter
\* counter as they were; a where call with no such name returns and appends
\* exactly one filter clause, the one passed.
C11_ReservedRejected ==
    [][\A w \in WhereArgs : Where(w) =>
          IF \E k \in DOMAIN w.params : Reserved(k)
          THEN /\ call'.ret = "raise"
               /\ q' = q
          ELSE /\ call'.ret = "self"
               /\ q'._filters = Append(q._filters, [sql |-> w.sql, p |-> w.params])
               /\ q'._search = q._search
               /\ q'._param_counter = q._param_counter]_vars

\* A where call with a reserved name was rejected on a query that already
\* holds a search clause, a generated parameter and a raw filter.
C11_Witness ==
    /\ call.op = "where"
    /\ call.ret = "raise"
    /\ q._search # <<>>
    /\ q._param_counter = 2
    /\ \E i \in 1..Len(q._filters) : NearName \in DOMAIN q._filters[i].p

-----------------------------------------------------------------------------
\* Pagination input.  A value handed over as page or page size is an int, a
\* string (of a request) or None.

IntKey(n) == [kind |-> "int", n |-> n, s |-> <<>>]
StrKey(s) == [kind |-> "str", n |-> 0, s |-> s]
NoneKey == [kind |-> "none", n |-> 0, s |-> <<>>]

Digits == {"0", "1", "2", "3", "4", "5", "6", "7", "8", "9"}

DigitVal(c) ==
    CASE c = "0" -> 0 [] c = "1" -> 1 [] c = "2" -> 2 [] c = "3" -> 3 [] c = "4" -> 4
      [] c = "5" -> 5 [] c = "6" -> 6 [] c = "7" -> 7 [] c = "8" -> 8 [] c = "9" -> 9

RECURSIVE DigitsVal(_)
DigitsVal(s) == IF s = <<>> THEN 0 ELSE 10 * DigitsVal(SubSeq(s, 1, Len(s) - 1)) + DigitVal(s[Len(s)])

\* The digits of an integer literal: surrounding whitespace and one sign removed.
Unsigned(s) ==
    LET t == Strip(s)
    IN  IF t # <<>> /\ Head(t) \in {"+", "-"} THEN Tail(t) ELSE t

\* int(x) raises TypeError on None and ValueError on a string that is not an
\* integer literal.
IntRaises(x) ==
    \/ x.kind = "none"
    \/ /\ x.kind = "str"
       /\ \/ Unsigned(x.s) = <<>>
          \/ \E i \in 1..Len(Unsigned(x.s)) : Unsigned(x.s)[i] \notin Digits

int(x) ==
    IF x.kind = "int" THEN x.n
    ELSE IF Head(Strip(x.s)) = "-" THEN 0 - DigitsVal(Unsigned(x.s))
    ELSE DigitsVal(Unsigned(x.s))

default_limit == 28

\* Each value is defaulted on its own failure only.
_parse_pagination_each(page, limit, default) ==
    <<IF IntRaises(page) THEN 1 ELSE Max(1, int(page)),
      IF IntRaises(limit) THEN default ELSE Max(1, Min(100, int(limit)))>>

\* Both int() calls are inside the try: either failure gives (1, default_limit).
_parse_pagination(page, limit, default) ==
    IF IntRaises(page) \/ IntRaises(limit) THEN <<1, default>>
    ELSE <<Max(1, int(page)), Max(1, Min(100, int(limit)))>>

Keys ==
    { IntKey(3), StrKey(<<" ", "2">>), StrKey(<<"-", "1">>), StrKey(<<"1", "0", "1">>),
      StrKey(<<"a", "b", "c">>), StrKey(<<"1", ".", "5">>), StrKey(<<>>), NoneKey }

DefaultLimits == {default_limit, 500}

\* q[key] with any key: int(key) raises before the page is assigned.
GetItem(key) ==
    /\ pc = "idle"
    /\ q' = IF IntRaises(key) THEN q ELSE getitem_page(q, int(key))
    /\ call' = [op |-> "getitem", ret |-> IF IntRaises(key) THEN "raise" ELSE "self",
                txt |-> <<>>]
    /\ UNCHANGED <<last_search, last_order, hist, evars>>

\* q[key0, key1] with any keys: the page is assigned before int(key1) is
\* evaluated.
GetItemPair(key0, key1) ==
    /\ pc = "idle"
    /\ q' = IF IntRaises(key0) THEN q
            ELSE IF IntRaises(key1) THEN getitem_page(q, int(key0))
            ELSE getitem_tuple(q, int(key0), int(key1))
    /\ call' = [op |-> "getitem", ret |-> IF IntRaises(key0) \/ IntRaises(key1)
                                         THEN "raise" ELSE "self",
                txt |-> <<>>]
    /\ UNCHANGED <<last_search, last_order, hist, evars>>

\* A request handler: page, limit = _parse_pagination(page, limit), then
\* q[page, limit].
Paginate(page, limit, default) ==
    LET parsed == _parse_pagination(page, limit, default)
    IN  /\ pc = "idle"
        /\ q' = getitem_tuple(q, parsed[1], parsed[2])
        /\ call' = [op |-> "paginate", ret |-> "self", txt |-> <<>>]
        /\ UNCHANGED <<last_search, last_order, hist, evars>>

InitPage == InitExec /\ q = search(query("opds"), <<"a">>, "book", "fts")

NextPage ==
    \/ \E key \in Keys : GetItem(key)
    \/ \E key0, key1 \in Keys : GetItemPair(key0, key1)
    \/ \E page, limit \in Keys, d \in DefaultLimits : Paginate(page, limit, d)
    \/ ExecCount
    \/ \E scalar \in Totals : ExecFetch(scalar)
    \/ ExecReturn
    \/ ExecDone

\* Pagination with any input, and execute.
SpecPage == InitPage /\ [][NextPage]_vars

\* The inputs that are integers or integer literals.
NumericKeys ==
    {IntKey(3), StrKey(<<" ", "2">>), StrKey(<<"-", "1">>), StrKey(<<"1", "0", "1">>)}

\* The step is a call of the accessor or of a request handler.
SetterStep(op) == pc = "idle" /\ pc' = "idle" /\ call'.op = op

Clamp(lo, n, hi) == IF n < lo THEN lo ELSE IF n > hi THEN hi ELSE n

PageBounds(s) == s._page >= 1 /\ s._page_size >= 1 /\ s._page_size <= 100

\* C12 as stated: no call that sets the pagination fails, whatever the input;
\* afterwards page >= 1 and 1 <= page size <= 100, a non-numeric page has
\* become page 1 and a non-numeric page size the default page size.
C12_SetterNeverFails ==
    [][/\ PageBounds(q')
       /\ SetterStep("getitem") =>
             /\ \A key \in Keys : GetItem(key) =>
                   /\ call'.ret = "self"
                   /\ key \notin NumericKeys => q'._page = 1
             /\ \A key0, key1 \in Keys : GetItemPair(key0, key1) =>
                   /\ call'.ret = "self"
                   /\ key0 \notin NumericKeys => q'._page = 1
                   /\ key1 \notin NumericKeys => q'._page_size = SearchQuery._page_size
       /\ SetterStep("paginate") =>
             \A page, limit \in Keys, d \in DefaultLimits : Paginate(page, limit, d) =>
                /\ call'.ret = "self"
                /\ page \notin NumericKeys => q'._page = 1
                /\ limit \notin NumericKeys => q'._page_size = Clamp(1, d, 100)]_vars

\* C12, amended: pagination set through _parse_pagination and the accessor
\* never fails, and when the page or the page size is not numeric the page is
\* 1 and the page size the default, clamped into [1, 100]; the accessor called
\* with a non-numeric key fails, leaving the page size, and the page too
\* unless only the size is non-numeric; page >= 1 and 1 <= page size <= 100
\* after every step of the accessor, the parser and execute.
C12_LenientParser ==
    [][/\ PageBounds(q')
       /\ SetterStep("paginate") =>
             \A page, limit \in Keys, d \in DefaultLimits : Paginate(page, limit, d) =>
                /\ call'.ret = "self"
                /\ IF page \in NumericKeys /\ limit \in NumericKeys
                   THEN /\ q'._page = Clamp(1, int(page), int(page) + 1)
                        /\ q'._page_size = Clamp(1, int(limit), 100)
                   ELSE /\ q'._page = 1
                        /\ q'._page_size = Clamp(1, d, 100)
       /\ SetterStep("getitem") =>
             /\ \A key \in Keys : GetItem(key) =>
                   /\ call'.ret = "raise" <=> key \notin NumericKeys
                   /\ call'.ret = "raise" => q' = q
             /\ \A key0, key1 \in Keys : GetItemPair(key0, key1) =>
                   /\ call'.ret = "raise" <=>
                         (key0 \notin NumericKeys \/ key1 \notin NumericKeys)
                   /\ call'.ret = "raise" => q'._page_size = q._page_size
                   /\ key0 \notin NumericKeys => q' = q]_vars

\* A request whose page or page size is not numeric was given page 1 and the
\* default page size, and was executed.
C12_Witness ==
    /\ call.op = "paginate"
    /\ q._page = 1
    /\ q._page_size = default_limit
    /\ pc = "done"
    /\ outcome.kind = "returned"
    /\ outcome.page_size = default_limit

-----------------------------------------------------------------------------
\* Failures of the backing store, and the other calls that open a session.

DbError == [NoOutcome EXCEPT !.kind = "db_error"]

\* The failure of the count is taken for an empty result and the fetch is sent.
ExecCountFailsAsZero ==
    /\ pc = "count"
    /\ pc' = "fetch"
    /\ total' = 0
    /\ total_pages' = TotalPages(0, q._page_size)
    /\ q' = [q EXCEPT !._page = ClampPage(q._page, total_pages')]
    /\ db_log' = Append(db_log, build(q'))
    /\ sess' = Run(Reply(sess, "error"))
    /\ UNCHANGED <<call, last_search, last_order, hist, fmt, xw, thr, _custom_transformer, req_page,
                   rows,
                   outcome>>

\* execute: the count statement fails; the exception leaves the with block
\* and the call.
ExecCountFails ==
    /\ pc = "count"
    /\ pc' = "done"
    /\ sess' = CloseSession(Reply(sess, "error"))
    /\ outcome' = DbError
    /\ UNCHANGED <<bvars, fmt, xw, thr, _custom_transformer, req_page, db_log, total, total_pages, rows>>

\* The session stays open when the fetch fails.
ExecFetchFailsLeak ==
    /\ pc = "fetch"
    /\ pc' = "done"
    /\ sess' = KeepSession(Reply(sess, "error"))
    /\ outcome' = DbError
    /\ UNCHANGED <<bvars, fmt, xw, thr, _custom_transformer, req_page, db_log, total, total_pages, rows>>

\* execute: the fetch statement fails; the exception leaves the with block
\* and the call.
ExecFetchFails ==
    /\ pc = "fetch"
    /\ pc' = "done"
    /\ sess' = CloseSession(Reply(sess, "error"))
    /\ outcome' = DbError
    /\ UNCHANGED <<bvars, fmt, xw, thr, _custom_transformer, req_page, db_log, total, total_pages, rows>>

\* count: the session is opened, the count statement is built and sent.
CountOpen ==
    /\ pc = "idle"
    /\ pc' = "count_only"
    /\ db_log' = <<build_count(q)>>
    /\ sess' = Run(OpenSession(sess))
    /\ UNCHANGED <<bvars, fmt, xw, thr, _custom_transformer, req_page, total, total_pages, rows, outcome>>

\* count: the scalar is returned from inside the with block.
CountReturn(scalar) ==
    /\ pc = "count_only"
    /\ pc' = "done"
    /\ sess' = CloseSession(Reply(sess, "ok"))
    /\ outcome' = [NoOutcome EXCEPT !.kind = "returned", !.total = scalar]
    /\ UNCHANGED <<bvars, fmt, xw, thr, _custom_transformer, req_page, db_log, total, total_pages, rows>>

CountFails ==
    /\ pc = "count_only"
    /\ pc' = "done"
    /\ sess' = CloseSession(Reply(sess, "error"))
    /\ outcome' = DbError
    /\ UNCHANGED <<bvars, fmt, xw, thr, _custom_transformer, req_page, db_log, total, total_pages, rows>>

\* The books of the store that carry a subject: every sid-th book in any order.
NumSubjects == 3

HasSubject(book, sid) == book % sid = 0

\* The number a LIMIT placeholder is bound to: one of the numbers passed or
\* one of the clamps' ends.
ParseParam(v) ==
    CHOOSE n \in LimitInputs \cup MaxBooksInputs \cup {1, 100, 5000} : IntVal(n) = v

\* The rows the top-subjects statement returns when its WHERE matches
\* `matched` books, which the ORDER BY numbers 1..matched: the inner LIMIT
\* keeps the first of them, the join and GROUP BY count them per subject, the
\* outer ORDER BY and LIMIT keep the most frequent; `tie` ranks subjects of
\* equal count.
TopRows(stmt, matched, tie) ==
    LET mb == ParseParam(stmt.params[MaxBooksName])
        lim == ParseParam(stmt.params[LimitName])
        books == 1..Min(matched, mb)
        count(sid) == Cardinality({b \in books : HasSubject(b, sid)})
        present == {sid \in 1..NumSubjects : count(sid) > 0}
        before(a, b) == count(a) > count(b) \/ (count(a) = count(b) /\ tie[a] < tie[b])
        rank(sid) == 1 + Cardinality({o \in present : before(o, sid)})
        n == Min(lim, Cardinality(present))
    IN  [i \in 1..n |->
            LET sid == CHOOSE x \in present : rank(x) = i
            IN  [id |-> sid, count |-> count(sid)]]

Permutations3 == {t \in [1..NumSubjects -> 1..NumSubjects] : \A a, b \in 1..NumSubjects : a # b => t[a] # t[b]}

\* get_top_subjects_for_query: the statement is compiled, the session is
\* opened and the statement sent.
TopOpen(limit, max_books) ==
    /\ pc = "idle"
    /\ pc' = "top"
    /\ db_log' = <<top_subjects_statement(q, limit, max_books)>>
    /\ sess' = Run(OpenSession(sess))
    /\ UNCHANGED <<bvars, fmt, xw, thr, _custom_transformer, req_page, total, total_pages, rows, outcome>>

\* get_top_subjects_for_query: the rows arrive and are returned as dicts
\* from inside the with block.
TopReturn(matched, tie) ==
    /\ pc = "top"
    /\ pc' = "done"
    /\ total' = matched
    /\ rows' = TopRows(db_log[1], matched, tie)
    /\ sess' = CloseSession(Reply(sess, "ok"))
    /\ outcome' = [NoOutcome EXCEPT !.kind = "returned", !.results = rows']
    /\ UNCHANGED <<bvars, fmt, xw, thr, _custom_transformer, req_page, db_log, total_pages>>

TopFails ==
    /\ pc = "top"
    /\ pc' = "done"
    /\ sess' = CloseSession(Reply(sess, "error"))
    /\ outcome' = DbError
    /\ UNCHANGED <<bvars, fmt, xw, thr, _custom_transformer, req_page, db_log, total, total_pages, rows>>

NextFail ==
    \/ \E key0 \in {1, MaxPage}, key1 \in {MaxSize, 100} : GetItemTuple(key0, key1)
    \/ ExecCount
    \/ ExecCountFails
    \/ \E scalar \in Totals : ExecFetch(scalar)
    \/ ExecFetchFails
    \/ ExecReturn
    \/ ExecDone
    \/ CountOpen
    \/ \E scalar \in Totals : CountReturn(scalar)
    \/ CountFails
    \/ \E limit \in LimitInputs, max_books \in MaxBooksInputs : TopOpen(limit, max_books)
    \/ \E matched \in 0..MaxTotal, tie \in Permutations3 : TopReturn(matched, tie)
    \/ TopFails

\* The executor with a store that may fail: execute, count and
\* get_top_subjects_for_query on a built specification.
SpecFail == InitExec /\ [][NextFail]_vars

IsCount(stmt) == stmt.sql[2] = Lit("COUNT(*)")
IsFetch(stmt) == stmt.sql[2] = Lit("_SELECT")

\* C13: when the count or the fetch statement fails, execute fails as a whole:
\* no page envelope is returned, nothing is sent after the failure (no fetch
\* after a failed count), and the count and the fetch statement are each sent
\* at most once.
C13_FailsAsAWhole ==
    LET failed == {i \in 1..Len(sess.replies) : sess.replies[i] = "error"}
    IN  /\ Len(sess.replies) <= Len(db_log)
        /\ \A i \in failed : i = Len(db_log)
        /\ failed # {} =>
              /\ pc = "done"
              /\ outcome = DbError
              /\ rows = <<>>
        /\ Cardinality({i \in 1..Len(db_log) : IsCount(db_log[i])}) <= 1
        /\ Cardinality({i \in 1..Len(db_log) : IsFetch(db_log[i])}) <= 1
        /\ pc \in {"count", "fetch"} \/ (pc = "done" /\ Len(db_log) = 2) =>
              \A i \in 1..Len(db_log) :
                  IF i = 1 THEN IsCount(db_log[i]) ELSE IsFetch(db_log[i])

\* The count of an execute has failed on a specification with a search clause
\* and a filter, and the call has ended without a fetch.
C13_Witness ==
    /\ pc = "done"
    /\ Len(db_log) = 1
    /\ IsCount(db_log[1])
    /\ sess.replies = <<"error">>
    /\ outcome = DbError
    /\ q._search # <<>>
    /\ q._filters # <<>>

\* C14: execute, count and get_top_subjects_for_query each open one session,
\* every statement of the call runs in it, and once the call has returned or
\* failed (at the count, at the fetch or while rendering) no session is open.
C14_SessionReleased ==
    /\ pc \in {"count", "fetch", "count_only", "top"} =>
          /\ sess.opened = 1
          /\ sess.open = 1
    /\ pc = "done" => sess.opened = 1
    /\ pc \in {"idle", "done"} => sess.open = 0
    /\ Len(sess.log) = Len(db_log)
    /\ \A i \in 1..Len(sess.log) : sess.log[i] = 1

\* The fetch of an execute has failed after the count had succeeded in the
\* same session, and the call has ended.
C14_Witness ==
    /\ pc = "done"
    /\ sess.replies = <<"ok", "error">>
    /\ sess.log = <<1, 1>>
    /\ sess.opened = 1
    /\ sess.open = 0
    /\ outcome = DbError

-----------------------------------------------------------------------------
\* Rendering.

\* The crosswalk of the specification has a renderer: an entry of the dispatch
\* table, or the registered custom transformer.
HasRenderer ==
    \/ q._crosswalk \in {"pg", "opds"}
    \/ q._crosswalk = "custom" /\ _custom_transformer

\* C15: an execute on a specification whose crosswalk has no renderer fails
\* and returns no page envelope, whatever the number of matching rows; no
\* other renderer is used in its place.
C15_NoRendererFails ==
    pc = "done" =>
        /\ ~HasRenderer => outcome = [NoOutcome EXCEPT !.kind = "raised"]
        /\ \A i \in 1..Len(outcome.results) :
              outcome.results[i].by =
                 CASE q._crosswalk = "pg" -> "crosswalk_pg"
                   [] q._crosswalk = "opds" -> "crosswalk_opds"
                   [] q._crosswalk = "custom" -> "custom_transformer"

\* The renderer each member of the enumeration selects.
RendererOf(cw) ==
    CASE cw = "full" -> "crosswalk_full"
      [] cw = "mini" -> "crosswalk_mini"
      [] cw = "pg" -> "crosswalk_pg"
      [] cw = "opds" -> "crosswalk_opds"
      [] cw = "custom" -> "custom_transformer"

\* C16: a specification of any member of the enumeration (CUSTOM once a
\* transformer is registered) is executed: every fetched row is rendered by
\* the renderer of its crosswalk and the page envelope is returned.
C16_EveryMemberExecutes ==
    pc = "done" /\ (q._crosswalk = "custom" => _custom_transformer) =>
        /\ outcome.kind = "returned"
        /\ Len(outcome.results) = Len(rows)
        /\ \A i \in 1..Len(rows) :
              outcome.results[i] = [row |-> rows[i], by |-> RendererOf(q._crosswalk)]

-----------------------------------------------------------------------------
\* Top subjects of a query.

TopMatched == {0, 1, MaxTotal}

NextTop ==
    \/ \E st \in SearchType : Search(<<"a">>, "book", st)
    \/ \E w \in WhereCalls : Where(w)
    \/ \E o \in {"relevance", "downloads"} : OrderByCall(o, None)
    \/ \E limit \in LimitInputs, max_books \in MaxBooksInputs : TopOpen(limit, max_books)
    \/ \E matched \in TopMatched, tie \in Permutations3 : TopReturn(matched, tie)
    \/ TopFails
    \/ ExecDone

\* get_top_subjects_for_query on specifications with search clauses and raw
\* filters.
SpecTop == Init /\ [][NextTop]_vars

\* The first position of a token in a statement.
First(sql, tok) == CHOOSE i \in 1..Len(sql) : sql[i] = tok /\ \A j \in 1..(i - 1) : sql[j] # tok

\* The predicates the top-subjects statement conjoins, with their values.
TopConjuncts(stmt) ==
    IF \E i \in 1..Len(stmt.sql) : stmt.sql[i] = Lit("WHERE")
    THEN SplitAnd(Resolve(SubSeq(stmt.sql, First(stmt.sql, Lit("WHERE")) + 1,
                                 First(stmt.sql, Lit("ORDER BY")) - 1), stmt.params))
    ELSE {}

\* The ORDER BY expression of the matched books.
TopOrder(stmt) ==
    SubSeq(stmt.sql, First(stmt.sql, Lit("ORDER BY")) + 1, First(stmt.sql, Lit("LIMIT")) - 1)

\* C17: the statement of get_top_subjects_for_query binds max_books clamped
\* into [1, 5000] and limit into [1, 100]; the subjects are counted over at
\* most max_books books, the first of the specification's own order among
\* those matched by the predicates, with their values, that build_count
\* compiles; at most limit subjects are returned, in non-increasing order of
\* count; the specification is as the builder calls left it.
C17_TopSubjects ==
    pc \in {"top", "done"} =>
        LET stmt == db_log[1]
            mb == ParseParam(stmt.params[MaxBooksName])
            lim == ParseParam(stmt.params[LimitName])
            res == outcome.results
        IN  /\ 1 <= mb /\ mb <= 5000
            /\ 1 <= lim /\ lim <= 100
            /\ TopConjuncts(stmt)
                  = Conjuncts(build_count(q)).inner \cup Conjuncts(build_count(q)).outer
            /\ TopOrder(stmt) = OrderPart(build(q).sql)
            /\ SubSeq(stmt.sql, First(stmt.sql, Lit("LIMIT")), First(stmt.sql, Lit("LIMIT")) + 1)
                  = <<Lit("LIMIT"), Ph(MaxBooksName)>>
            /\ SubSeq(stmt.sql, Len(stmt.sql) - 1, Len(stmt.sql)) = <<Lit("LIMIT"), Ph(LimitName)>>
            /\ q = order_by(Replay(query("full"), hist), q._order, q._sort_dir)
            /\ pc = "done" /\ outcome.kind = "returned" =>
                  /\ Len(res) <= lim
                  /\ \A i \in 1..Len(res) :
                        /\ res[i].count <= mb
                        /\ res[i].count =
                              Cardinality({b \in 1..Min(total, mb) : HasSubject(b, res[i].id)})
                  /\ \A i \in 1..(Len(res) - 1) : res[i].count >= res[i + 1].count

-----------------------------------------------------------------------------
\* The structural filters that take a value.  A value is an int, a list of
\* ints, a str or a member of the method's enumeration (IntKey, StrKey and the
\* two below).

EnumKey(s) == [kind |-> "enum", n |-> 0, s |-> s]

RECURSIVE IntVals(_)
IntVals(ns) == IF ns = <<>> THEN <<>> ELSE IntVal(Head(ns)) \o IntVals(Tail(ns))

\* A list of ints, as the list of their renderings.
ListKey(ns) == [kind |-> "list", n |-> 0, s |-> IntVals(ns)]

Lowers == <<"a", "b", "c", "d", "e", "f", "g", "h", "i", "j", "k", "l", "m",
            "n", "o", "p", "q", "r", "s", "t", "u", "v", "w", "x", "y", "z">>
Uppers == <<"A", "B", "C", "D", "E", "F", "G", "H", "I", "J", "K", "L", "M",
            "N", "O", "P", "Q", "R", "S", "T", "U", "V", "W", "X", "Y", "Z">>

LowerChar(c) == IF \E i \in 1..26 : Uppers[i] = c THEN Lowers[CHOOSE i \in 1..26 : Uppers[i] = c] ELSE c
UpperChar(c) == IF \E i \in 1..26 : Lowers[i] = c THEN Uppers[CHOOSE i \in 1..26 : Lowers[i] = c] ELSE c

\* str.lower and str.upper
lower(s) == [i \in 1..Len(s) |-> LowerChar(s[i])]
upper(s) == [i \in 1..Len(s) |-> UpperChar(s[i])]

\* The member's code, or the string converted.
EnumOr(x, converted) == IF x.kind = "enum" THEN x.s ELSE converted

etexts(s, nrs) == filter(s, <<Lit("book_id = ANY("), Hole, Lit(")")>>, <<nrs.s>>)

\* The number is written into the SQL text.
downloads_gte_inline(s, n) ==
    [s EXCEPT !._filters = Append(@, [sql |-> <<Lit("downloads >="), Num(int(n))>>,
                                       p |-> EmptyParams])]

downloads_gte(s, n) == filter(s, <<Lit("downloads >="), Hole>>, <<IntVal(int(n))>>)

downloads_lte(s, n) == filter(s, <<Lit("downloads <="), Hole>>, <<IntVal(int(n))>>)

copyrighted(s) ==
    [s EXCEPT !._filters = Append(@, [sql |-> <<Lit("copyrighted = 1")>>, p |-> EmptyParams])]

lang(s, code) ==
    filter(s, <<Lit("lang_codes @> ARRAY[CAST("), Hole, Lit("AS text)]")>>,
           <<EnumOr(code, lower(code.s))>>)

text_only(s) ==
    [s EXCEPT !._filters = Append(@, [sql |-> <<Lit("is_audio = false")>>, p |-> EmptyParams])]

audiobook(s) ==
    [s EXCEPT !._filters = Append(@, [sql |-> <<Lit("is_audio = true")>>, p |-> EmptyParams])]

author_born_after(s, year) ==
    filter(s, <<Lit("max_author_birthyear >="), Hole>>, <<IntVal(int(year))>>)

author_born_before(s, year) ==
    filter(s, <<Lit("min_author_birthyear <="), Hole>>, <<IntVal(int(year))>>)

author_died_after(s, year) ==
    filter(s, <<Lit("max_author_deathyear >="), Hole>>, <<IntVal(int(year))>>)

author_died_before(s, year) ==
    filter(s, <<Lit("min_author_deathyear <="), Hole>>, <<IntVal(int(year))>>)

released_after(s, date) ==
    filter(s, <<Lit("CAST(release_date AS date) >= CAST("), Hole, Lit("AS date)")>>, <<date.s>>)

released_before(s, date) ==
    filter(s, <<Lit("CAST(release_date AS date) <= CAST("), Hole, Lit("AS date)")>>, <<date.s>>)

locc(s, code) ==
    filter(s, <<Lit("EXISTS (SELECT 1 FROM mn_books_loccs mbl JOIN loccs lc ON lc.pk = mbl.fk_loccs WHERE mbl.fk_books = book_id AND lc.pk LIKE"),
                Hole, Lit(")")>>,
           <<EnumOr(code, upper(code.s)) \o <<"%">>>>)

contributor_role(s, role) ==
    filter(s, <<Lit("EXISTS (SELECT 1 FROM mn_books_authors mba JOIN roles r ON mba.fk_roles = r.pk WHERE mba.fk_books = book_id AND r.role ="),
                Hole, Lit(")")>>,
           <<role.s>>)

file_type(s, ft) ==
    filter(s, <<Lit("EXISTS (SELECT 1 FROM files f JOIN filetypes ft ON f.fk_filetypes = ft.pk WHERE f.fk_books = book_id AND f.obsoleted = 0 AND f.diskstatus = 0 AND ft.mediatype ="),
                Hole, Lit(")")>>,
           <<EnumOr(ft, ft.s)>>)

author_id(s, aid) ==
    filter(s, <<Lit("EXISTS (SELECT 1 FROM mn_books_authors mba WHERE mba.fk_books = book_id AND mba.fk_authors ="),
                Hole, Lit(")")>>,
           <<IntVal(int(aid))>>)

subject_id(s, sid) ==
    filter(s, <<Lit("EXISTS (SELECT 1 FROM mn_books_subjects mbs WHERE mbs.fk_books = book_id AND mbs.fk_subjects ="),
                Hole, Lit(")")>>,
           <<IntVal(int(sid))>>)

bookshelf_id(s, bid) ==
    filter(s, <<Lit("EXISTS (SELECT 1 FROM mn_books_bookshelves mbb WHERE mbb.fk_books = book_id AND mbb.fk_bookshelves ="),
                Hole, Lit(")")>>,
           <<IntVal(int(bid))>>)

encoding(s, enc) ==
    filter(s, <<Lit("EXISTS (SELECT 1 FROM files f WHERE f.fk_books = book_id AND f.obsoleted = 0 AND f.diskstatus = 0 AND f.fk_encodings ="),
                Hole, Lit(")")>>,
           <<EnumOr(enc, enc.s)>>)

-----------------------------------------------------------------------------
\* Specifications built from user-supplied values.

MaxValued == 2      \* clauses of a specification built from values

IntMethods ==
    {"etext", "downloads_gte", "downloads_lte", "author_born_after", "author_born_before",
     "author_died_after", "author_died_before", "author_id", "subject_id", "bookshelf_id"}

FlagMethods == {"public_domain", "copyrighted", "text_only", "audiobook"}

FilterMethods ==
    IntMethods \cup FlagMethods
        \cup {"etexts", "lang", "released_after", "released_before", "locc",
              "contributor_role", "file_type", "encoding"}

\* The values passed to a method: the one the calls are made with, and
\* another one.
InputsOf(m) ==
    CASE m = "search" -> <<StrKey(<<" ", "b", "%">>), StrKey(<<"a">>)>>
      [] m \in IntMethods -> <<StrKey(<<"2">>), IntKey(1)>>
      [] m \in FlagMethods -> <<NoneKey, NoneKey>>
      [] m = "etexts" -> <<ListKey(<<1, 2>>), ListKey(<<1>>)>>
      [] m = "lang" -> <<StrKey(<<"E", "N">>), EnumKey(<<"f", "r">>)>>
      [] m \in {"released_after", "released_before"} ->
            <<StrKey(<<"2020-01-01">>), StrKey(<<"1999-12-31">>)>>
      [] m = "locc" -> <<StrKey(<<"p", "r">>), EnumKey(<<"P">>)>>
      [] m = "contributor_role" -> <<StrKey(<<"Editor">>), StrKey(<<"Illustrator">>)>>
      [] m = "file_type" -> <<StrKey(<<"application/pdf">>), EnumKey(<<"text/plain">>)>>
      [] m = "encoding" -> <<StrKey(<<"utf-8">>), EnumKey(<<"us-ascii">>)>>

\* A call of a search or structural-filter method, as a value.
ValuedCall(op, st, v) == [op |-> op, st |-> st, v |-> v]

ApplyValued(s, c) ==
    CASE c.op = "search" -> search(s, c.v.s, "book", c.st)
      [] c.op = "etext" -> etext(s, int(c.v))
      [] c.op = "etexts" -> etexts(s, c.v)
      [] c.op = "downloads_gte" -> downloads_gte(s, c.v)
      [] c.op = "downloads_lte" -> downloads_lte(s, c.v)
      [] c.op = "public_domain" -> public_domain(s)
      [] c.op = "copyrighted" -> copyrighted(s)
      [] c.op = "lang" -> lang(s, c.v)
      [] c.op = "text_only" -> text_only(s)
      [] c.op = "audiobook" -> audiobook(s)
      [] c.op = "author_born_after" -> author_born_after(s, c.v)
      [] c.op = "author_born_before" -> author_born_before(s, c.v)
      [] c.op = "author_died_after" -> author_died_after(s, c.v)
      [] c.op = "author_died_before" -> author_died_before(s, c.v)
      [] c.op = "released_after" -> released_after(s, c.v)
      [] c.op = "released_before" -> released_before(s, c.v)
      [] c.op = "locc" -> locc(s, c.v)
      [] c.op = "contributor_role" -> contributor_role(s, c.v)
      [] c.op = "file_type" -> file_type(s, c.v)
      [] c.op = "author_id" -> author_id(s, c.v)
      [] c.op = "subject_id" -> subject_id(s, c.v)
      [] c.op = "bookshelf_id" -> bookshelf_id(s, c.v)
      [] c.op = "encoding" -> encoding(s, c.v)

RECURSIVE ReplayValued(_, _)
ReplayValued(s, calls) ==
    IF calls = <<>> THEN s ELSE ReplayValued(ApplyValued(s, Head(calls)), Tail(calls))

\* q.search(txt, search_type=st) with a text that is not blank.
SearchValue(v, st) ==
    /\ pc = "idle"
    /\ NumClauses(q) < MaxValued
    /\ q' = ApplyValued(q, ValuedCall("search", st, v))
    /\ call' = [op |-> "search", ret |-> "self", txt |-> v.s]
    /\ last_search' = [txt |-> v.s, search_type |-> st]
    /\ hist' = Append(hist, ValuedCall("search", st, v))
    /\ UNCHANGED <<last_order, evars>>

\* A structural filter method called with a value (or, a flag, with none).
FilterValue(m, v) ==
    /\ pc = "idle"
    /\ NumClauses(q) < MaxValued
    /\ q' = ApplyValued(q, ValuedCall(m, None, v))
    /\ call' = [op |-> m, ret |-> "self", txt |-> <<>>]
    /\ hist' = Append(hist, ValuedCall(m, None, v))
    /\ UNCHANGED <<last_search, last_order, evars>>

NextValues ==
    \/ \E st \in SearchType : SearchValue(InputsOf("search")[1], st)
    \/ \E m \in FilterMethods : FilterValue(m, InputsOf(m)[1])
    \/ OrderByCall("relevance", None)
    \/ GetItemTuple(2, MaxSize)

\* Every sequence of search and structural-filter calls, with ordering and
\* pagination.
SpecValues == Init /\ [][NextValues]_vars

\* The specification built by the calls made, each with the value `pick`
\* chooses for it, with the ordering and pagination of q.
Revalued(pick) ==
    [ReplayValued(query("full"),
                  [i \in 1..Len(hist) |-> [hist[i] EXCEPT !.v = InputsOf(hist[i].op)[pick[i]]]])
        EXCEPT !._order = q._order, !._sort_dir = q._sort_dir,
               !._page = q._page, !._page_size = q._page_size]

\* C18: the specifications built by the same search and structural-filter
\* calls, ordering and pagination with other values passed compile, in build
\* and in build_count, to the same SQL text with the same parameter names;
\* the only tokens that are not template text or placeholders are the LIMIT
\* and OFFSET numbers.
C18_TextIndependentOfValues ==
    LET b == build(q)
        c == build_count(q)
    IN  /\ \A pick \in [1..Len(hist) -> {1, 2}] :
              LET twin == Revalued(pick)
                  tb == build(twin)
              IN  /\ tb.sql = b.sql
                  /\ build_count(twin).sql = c.sql
                  /\ DOMAIN tb.params = DOMAIN b.params
        /\ \A k \in 1..(Len(b.sql) - 4) : b.sql[k].t \in {"lit", "ph"}
        /\ \A k \in 1..Len(c.sql) : c.sql[k].t \in {"lit", "ph"}

\* A fuzzy search and a classification filter given as a string, ordered by
\* relevance on page 2: the values are bound, the classification in upper
\* case with the wildcard appended.
C18_Witness ==
    /\ Len(hist) = 2
    /\ hist[1] = ValuedCall("search", "fuzzy", StrKey(<<" ", "b", "%">>))
    /\ hist[2] = ValuedCall("locc", None, StrKey(<<"p", "r">>))
    /\ q._order = "relevance"
    /\ q._page = 2
    /\ build(q).params[PName(1)] = <<"P", "R", "%">>
    /\ build(q).params[RankQ] = <<"b">>
    /\ build(Revalued(<<2, 2>>)).params[PName(1)] = <<"P", "%">>
    /\ build(Revalued(<<2, 2>>)).params[RankQ] = <<"a">>

\* ---------------------------------------------------------------------------
\* The Field Normalizer (formatters.py).  A text is a sequence of characters;
\* the four curly quotes are the characters "lsquo", "rsquo", "ldquo", "rdquo".
\* Every re.sub is computed as the regex engine computes it: the leftmost
\* match, greedy, matches that do not overlap, one pass over the text.

LowerLetters == {Lowers[i] : i \in 1..26}
Alnum == LowerLetters \cup {Uppers[i] : i \in 1..26} \cup Digits

\* _RE_MARC_SUBFIELD.sub("", text)      \$[a-z]
RECURSIVE sub_marc_subfield(_)
sub_marc_subfield(text) ==
    IF text = <<>> THEN <<>>
    ELSE IF Len(text) >= 2 /\ text[1] = "$" /\ text[2] \in LowerLetters
         THEN sub_marc_subfield(SubSeq(text, 3, Len(text)))
         ELSE <<text[1]>> \o sub_marc_subfield(Tail(text))

\* _RE_MARC_SPSEP.sub(r"\1 \2", text)   [\n ](,|:)([A-Za-z0-9])
RECURSIVE sub_marc_spsep(_)
sub_marc_spsep(text) ==
    IF text = <<>> THEN <<>>
    ELSE IF Len(text) >= 3 /\ text[1] \in {"\n", " "} /\ text[2] \in {",", ":"}
            /\ text[3] \in Alnum
         THEN <<text[2], " ", text[3]>> \o sub_marc_spsep(SubSeq(text, 4, Len(text)))
         ELSE <<text[1]>> \o sub_marc_spsep(Tail(text))

strip_marc_subfields(text) ==
    IF text = <<>> THEN <<>> ELSE Strip(sub_marc_spsep(sub_marc_subfield(text)))

\* _RE_CURLY_SINGLE.sub("'", text) and _RE_CURLY_DOUBLE.sub('"', text)
sub_curly(text) ==
    [i \in 1..Len(text) |->
        IF text[i] \in {"lsquo", "rsquo"} THEN "'"
        ELSE IF text[i] \in {"ldquo", "rdquo"} THEN "\"" ELSE text[i]]

\* _RE_TITLE_SPLITTER.sub(": ", text)   \s*[;:]\s*
RECURSIVE sub_title_splitter(_)
sub_title_splitter(text) ==
    IF text = <<>> THEN <<>>
    ELSE LET rest == LStrip(text)
         IN  IF rest # <<>> /\ rest[1] \in {";", ":"}
             THEN <<":", " ">> \o sub_title_splitter(LStrip(Tail(rest)))
             ELSE <<text[1]>> \o sub_title_splitter(Tail(text))

\* str.rstrip(chars)
RECURSIVE rstrip(_, _)
rstrip(text, chars) ==
    IF text # <<>> /\ text[Len(text)] \in chars
    THEN rstrip(SubSeq(text, 1, Len(text) - 1), chars) ELSE text

normalize_text(text) ==
    IF text = <<>> THEN <<>>
    ELSE Strip(rstrip(sub_title_splitter(sub_curly(text)), {":", " "}))

\* _RE_UPDATED                          \s*[Uu]pdated?:\s*.*$
\* '.' matches no newline and '$' matches at the end of the text or before a
\* newline that ends it, so the marker matches only when what follows it is
\* whitespace, then one line, then nothing or the final newline.
UpdatedMarkers ==
    { <<u, "p", "d", "a", "t", "e">> \o d \o <<":">> : u \in {"U", "u"}, d \in {<<"d">>, <<>>} }

RECURSIVE DropLine(_)
DropLine(text) == IF text # <<>> /\ text[1] # "\n" THEN DropLine(Tail(text)) ELSE text

AfterUpdated(text) ==
    LET rest == LStrip(text)
        m == CHOOSE m \in UpdatedMarkers : StartsWith(rest, m)
    IN  DropLine(LStrip(SubSeq(rest, Len(m) + 1, Len(rest))))

MatchUpdated(text) ==
    /\ \E m \in UpdatedMarkers : StartsWith(LStrip(text), m)
    /\ AfterUpdated(text) \in {<<>>, <<"\n">>}

RECURSIVE sub_updated(_)
sub_updated(text) ==
    IF text = <<>> THEN <<>>
    ELSE IF MatchUpdated(text) THEN AfterUpdated(text)
         ELSE <<text[1]>> \o sub_updated(Tail(text))

strip_updated(text) == IF text = <<>> THEN <<>> ELSE Strip(sub_updated(text))

_FIELDS_TO_FORMAT ==
    {"title", "name", "publisher", "summary", "credits", "reading_level", "subject",
     "subjects", "bookshelf", "bookshelves"}

format_field(key, value) ==
    IF value = <<>> THEN <<>>
    ELSE LET formatted == IF key \in _FIELDS_TO_FORMAT
                          THEN normalize_text(strip_marc_subfields(value)) ELSE value
             credits == IF key = "credits" THEN strip_updated(formatted) ELSE formatted
         IN  Strip(credits)

\* The values of a string field: every text of up to MaxChunks pieces, the
\* pieces being the characters the rules look at and one marker word, and
\* four texts written out.
MaxChunks == 4

Pieces ==
    { <<"$">>, <<"a">>, <<"S">>, <<" ">>, <<"\n">>, <<":">>, <<";">>, <<",">>,
      <<"U", "p", "d", "a", "t", "e", "d", ":">> }

RECURSIVE FieldTexts(_)
FieldTexts(n) ==
    IF n = 0 THEN {<<>>}
    ELSE LET shorter == FieldTexts(n - 1) IN shorter \cup {t \o p : t \in shorter, p \in Pieces}

SmithJohn == <<"$", "a", "S", "m", "i", "t", "h", "$", "b", "J", "o", "h", "n">>

FieldValues ==
    FieldTexts(MaxChunks) \cup
    { SmithJohn,
      <<"lsquo", "a", "rsquo", " ", ";", " ", "ldquo", "b", "rdquo", ";">>,
      <<"a", " ", "u", "p", "d", "a", "t", "e", ":", " ", "x", "\n">>,
      <<"a", " ", "U", "p", "d", "a", "t", "e", "d", ":", " ", "x", "\n", "y">> }

FieldKeys == {"title", "credits", "language"}

InitFormat ==
    /\ q = query("full")
    /\ call = NoCall
    /\ last_search = NoSearch
    /\ last_order = NoOrder
    /\ hist = <<>>
    /\ _custom_transformer = FALSE
    /\ pc = "idle"
    /\ req_page = 0
    /\ db_log = <<>>
    /\ total = 0
    /\ total_pages = 0
    /\ rows = <<>>
    /\ outcome = NoOutcome
    /\ sess = NoSessions
    /\ xw = NoRender
    /\ thr = NoThreads
    /\ \E key \in FieldKeys, value \in FieldValues :
           fmt = [NoField EXCEPT !.key = key, !.value = value, !.step = "call"]

\* format_field(key, value)
FormatField ==
    /\ fmt.step = "call"
    /\ fmt' = [fmt EXCEPT !.out = format_field(fmt.key, fmt.value), !.step = "done"]
    /\ UNCHANGED <<bvars, _custom_transformer, pc, req_page, db_log, total, total_pages, rows,
                   outcome, sess, xw, thr>>

\* format_field(key, value) with the result of the last call as value
FormatAgain ==
    /\ fmt.step = "done"
    /\ fmt' = [fmt EXCEPT !.value = fmt.out, !.out = format_field(fmt.key, fmt.out),
                          !.step = "again"]
    /\ UNCHANGED <<bvars, _custom_transformer, pc, req_page, db_log, total, total_pages, rows,
                   outcome, sess, xw, thr>>

NextFormat == FormatField \/ FormatAgain

SpecFormat == InitFormat /\ [][NextFormat]_vars

\* C19: the Field Normalizer is idempotent: formatting the result of
\* format_field(key, x) again under the same key gives that result back, for
\* every key and every text x (markers next to or inside one another, repeated
\* separators and an "Updated:" marker included).
C19_Idempotent == fmt.step = "again" => fmt.out = fmt.value

\* A '$' followed by a lower-case letter occurs in the text.
HasMarker(text) ==
    \E i \in 1..(Len(text) - 1) : text[i] = "$" /\ text[i + 1] \in LowerLetters

\* C20: normalizing a human-text field removes every '$<letter>' marker, turns
\* each interior sub-field boundary into one space ("$aSmith$bJohn" becomes
\* "Smith John"), and the result never ends with ':' or ';' or whitespace.
C20_MarkersToSpaces ==
    (fmt.step = "done" /\ fmt.key \in _FIELDS_TO_FORMAT) =>
        /\ ~HasMarker(fmt.out)
        /\ fmt.value = SmithJohn => fmt.out = <<"S", "m", "i", "t", "h", " ", "J", "o", "h", "n">>
        /\ fmt.out # <<>> => fmt.out[Len(fmt.out)] \notin {":", ";", " ", "\n", "\t"}

\* ---------------------------------------------------------------------------
\* The crosswalk transformers (crosswalks.py).  A row is a record of column
\* values; a scalar is IntKey, StrKey or NoneKey (SQL null), an array column
\* is a sequence of scalars (a null array reads as the empty one, as in
\* "list(row.x) if row.x else []").

\* Python truth value of a scalar: "if not name"
Falsy(v) == v.kind = "none" \/ (v.kind = "str" /\ v.s = <<>>) \/ (v.kind = "int" /\ v.n = 0)

\* zip_longest(..., fillvalue=None): the element at position i or the fill value
At(array, i) == IF i <= Len(array) THEN array[i] ELSE NoneKey

Longest(arrays) ==
    IF arrays = <<>> THEN 0
    ELSE CHOOSE n \in {Len(arrays[k]) : k \in 1..Len(arrays)} :
             \A k \in 1..Len(arrays) : Len(arrays[k]) <= n

Author == StrKey(<<"A", "u", "t", "h", "o", "r">>)

_build_creators_shortest(row) ==
    LET n == Len(row.creator_names)
        entry(i) == [id |-> At(row.creator_ids, i), name |-> row.creator_names[i],
                     role |-> At(row.creator_roles, i),
                     born_floor |-> At(row.creator_born_floor, i),
                     born_ceil |-> At(row.creator_born_ceil, i),
                     died_floor |-> At(row.creator_died_floor, i),
                     died_ceil |-> At(row.creator_died_ceil, i)]
        named == SelectSeq([i \in 1..n |-> i], LAMBDA i : ~Falsy(row.creator_names[i]))
    IN  [k \in 1..Len(named) |->
            [entry(k) EXCEPT !.name = row.creator_names[named[k]],
                             !.role = IF Falsy(@) THEN Author ELSE @]]

_build_creators(row) ==
    LET n == Longest(<<row.creator_names, row.creator_roles, row.creator_ids,
                       row.creator_born_floor, row.creator_born_ceil,
                       row.creator_died_floor, row.creator_died_ceil>>)
        zipped == [i \in 1..n |->
                     [id |-> At(row.creator_ids, i), name |-> At(row.creator_names, i),
                      role |-> At(row.creator_roles, i),
                      born_floor |-> At(row.creator_born_floor, i),
                      born_ceil |-> At(row.creator_born_ceil, i),
                      died_floor |-> At(row.creator_died_floor, i),
                      died_ceil |-> At(row.creator_died_ceil, i)]]
        named == SelectSeq(zipped, LAMBDA e : ~Falsy(e.name))
    IN  [k \in 1..Len(named) |->
            [named[k] EXCEPT !.role = IF Falsy(@) THEN Author ELSE @]]

_build_subjects(row) ==
    LET n == Longest(<<row.subject_names, row.subject_ids>>)
        zipped == [i \in 1..n |->
                     [id |-> At(row.subject_ids, i), subject |-> At(row.subject_names, i)]]
    IN  SelectSeq(zipped, LAMBDA e : ~Falsy(e.subject))

_build_bookshelves(row) ==
    LET n == Longest(<<row.bookshelf_names, row.bookshelf_ids>>)
        zipped == [i \in 1..n |->
                     [id |-> At(row.bookshelf_ids, i), bookshelf |-> At(row.bookshelf_names, i)]]
    IN  SelectSeq(zipped, LAMBDA e : ~Falsy(e.bookshelf))

_build_formats(row) ==
    LET n == Longest(<<row.format_filenames, row.format_filetypes, row.format_hr_filetypes,
                       row.format_mediatypes, row.format_extents>>)
        zipped == [i \in 1..n |->
                     [filename |-> At(row.format_filenames, i),
                      filetype |-> At(row.format_filetypes, i),
                      hr_filetype |-> At(row.format_hr_filetypes, i),
                      mediatype |-> At(row.format_mediatypes, i),
                      extent |-> At(row.format_extents, i)]]
    IN  SelectSeq(zipped, LAMBDA e : ~Falsy(e.filename))

\* A row with every column the transformers read; the specifications below
\* draw the columns their transformer step looks at.
EmptyRow ==
    [book_id |-> 7, title |-> StrKey(<<"T">>), is_audio |-> FALSE,
     release_date |-> NoneKey, downloads |-> IntKey(0), copyrighted |-> IntKey(0),
     publisher |-> NoneKey, reading_level |-> NoneKey,
     lang_codes |-> <<>>, locc_codes |-> <<>>, dcmitypes |-> <<>>,
     summary |-> <<>>, credits |-> <<>>, coverpage |-> <<>>,
     creator_names |-> <<>>, creator_roles |-> <<>>, creator_ids |-> <<>>,
     creator_born_floor |-> <<>>, creator_born_ceil |-> <<>>,
     creator_died_floor |-> <<>>, creator_died_ceil |-> <<>>,
     subject_names |-> <<>>, subject_ids |-> <<>>,
     bookshelf_names |-> <<>>, bookshelf_ids |-> <<>>,
     format_filenames |-> <<>>, format_filetypes |-> <<>>, format_hr_filetypes |-> <<>>,
     format_mediatypes |-> <<>>, format_extents |-> <<>>]

\* Arrays of up to MaxItems elements.
MaxItems == 3

RECURSIVE Arrays(_, _)
Arrays(values, n) ==
    IF n = 0 THEN {<<>>}
    ELSE LET shorter == Arrays(values, n - 1)
         IN  shorter \cup {Append(a, v) : a \in {b \in shorter : Len(b) = n - 1}, v \in values}

\* The i-th element of a numbered array is the number base + i.
Numbered(base, n) == [i \in 1..n |-> IntKey(base + i)]

NameValues == {StrKey(<<"a">>), StrKey(<<"b">>), StrKey(<<>>), NoneKey}
RoleValues == {StrKey(<<"e", "d", "t">>), NoneKey}

ZipRows ==
    { [EmptyRow EXCEPT
          !.creator_names = names, !.subject_names = names, !.bookshelf_names = names,
          !.format_filenames = names,
          !.creator_roles = roles, !.format_filetypes = roles,
          !.creator_ids = Numbered(10, ids), !.subject_ids = Numbered(10, ids),
          !.bookshelf_ids = Numbered(10, ids), !.format_extents = Numbered(10, ids),
          !.creator_born_floor = Numbered(20, years), !.creator_died_ceil = Numbered(30, years),
          !.format_mediatypes = Numbered(20, years)] :
      names \in Arrays(NameValues, MaxItems), roles \in Arrays(RoleValues, MaxItems),
      ids \in 0..MaxItems, years \in {0, MaxItems} }

InitRow(Rows) ==
    /\ q = query("full")
    /\ call = NoCall
    /\ last_search = NoSearch
    /\ last_order = NoOrder
    /\ hist = <<>>
    /\ _custom_transformer = FALSE
    /\ pc = "idle"
    /\ req_page = 0
    /\ db_log = <<>>
    /\ total = 0
    /\ total_pages = 0
    /\ rows = <<>>
    /\ outcome = NoOutcome
    /\ sess = NoSessions
    /\ fmt = NoField
    /\ thr = NoThreads
    /\ \E row \in Rows : xw = [step |-> "row", row |-> row]

KeepRest ==
    UNCHANGED <<bvars, _custom_transformer, pc, req_page, db_log, total, total_pages, rows,
                outcome, sess, fmt, thr>>

\* The four builders every transformer starts with.
BuildCreators ==
    /\ xw.step = "row"
    /\ xw' = [step |-> "creators", row |-> xw.row, out |-> _build_creators(xw.row)]
    /\ KeepRest

BuildSubjects ==
    /\ xw.step = "row"
    /\ xw' = [step |-> "subjects", row |-> xw.row, out |-> _build_subjects(xw.row)]
    /\ KeepRest

BuildBookshelves ==
    /\ xw.step = "row"
    /\ xw' = [step |-> "bookshelves", row |-> xw.row, out |-> _build_bookshelves(xw.row)]
    /\ KeepRest

BuildFormats ==
    /\ xw.step = "row"
    /\ xw' = [step |-> "formats", row |-> xw.row, out |-> _build_formats(xw.row)]
    /\ KeepRest

NextZip == BuildCreators \/ BuildSubjects \/ BuildBookshelves \/ BuildFormats

SpecZip == InitRow(ZipRows) /\ [][NextZip]_vars

\* The positions of the zipped arrays whose primary field is kept, and the
\* k-th of them.
Kept(primary, n) == {i \in 1..n : ~Falsy(At(primary, i))}
KthKept(primary, n, k) ==
    CHOOSE i \in Kept(primary, n) : Cardinality({j \in Kept(primary, n) : j < i}) = k - 1

ZippedRight(out, primary, n, name, arrays, fields) ==
    /\ Len(out) = Cardinality(Kept(primary, n))
    /\ \A k \in 1..Len(out) :
          LET i == KthKept(primary, n, k)
          IN  /\ out[k][name] = primary[i]
              /\ \A c \in 1..Len(arrays) :
                    \/ out[k][fields[c]] = At(arrays[c], i)
                    \/ /\ fields[c] = "role"
                       /\ Falsy(At(arrays[c], i))
                       /\ out[k].role = Author

\* C28: zipping the parallel arrays of a row: the N-th entry is built from the
\* N-th element of every array, shorter arrays are padded with null, every
\* position whose primary field (name, filename) is null or empty is dropped,
\* and the entries left keep their order and their own values (a creator's
\* null or empty role reads "Author").
C28_ZipByPosition ==
    LET r == xw.row
    IN  /\ xw.step = "creators" =>
              LET arrays == <<r.creator_roles, r.creator_ids, r.creator_born_floor,
                              r.creator_born_ceil, r.creator_died_floor, r.creator_died_ceil>>
              IN  ZippedRight(xw.out, r.creator_names,
                              Longest(<<r.creator_names>> \o arrays), "name", arrays,
                              <<"role", "id", "born_floor", "born_ceil", "died_floor",
                                "died_ceil">>)
        /\ xw.step = "subjects" =>
              ZippedRight(xw.out, r.subject_names, Longest(<<r.subject_names, r.subject_ids>>),
                          "subject", <<r.subject_ids>>, <<"id">>)
        /\ xw.step = "bookshelves" =>
              ZippedRight(xw.out, r.bookshelf_names,
                          Longest(<<r.bookshelf_names, r.bookshelf_ids>>),
                          "bookshelf", <<r.bookshelf_ids>>, <<"id">>)
        /\ xw.step = "formats" =>
              LET arrays == <<r.format_filetypes, r.format_hr_filetypes, r.format_mediatypes,
                              r.format_extents>>
              IN  ZippedRight(xw.out, r.format_filenames,
                              Longest(<<r.format_filenames>> \o arrays), "filename", arrays,
                              <<"filetype", "hr_filetype", "mediatype", "extent">>)

\* A creator after a dropped position, with a padded role and its own id.
C28_Witness ==
    /\ xw.step = "creators"
    /\ Len(xw.row.creator_names) = 3
    /\ Falsy(xw.row.creator_names[1])
    /\ Len(xw.row.creator_roles) = 1
    /\ Len(xw.out) = 2
    /\ xw.out[1].id = IntKey(12)
    /\ xw.out[2].role = Author
    /\ xw.out[2].born_floor = NoneKey

\* ---------------------------------------------------------------------------
\* The records the transformers return.  A value is a scalar, a dict (its
\* items in insertion order) or a list.
Dict(items) == [kind |-> "dict", items |-> items]
ListOf(items) == [kind |-> "array", items |-> items]
Item(k, v) == [k |-> k, v |-> v]
Has(d, key) == \E i \in 1..Len(d.items) : d.items[i].k = key
Get(d, key) == d.items[CHOOSE i \in 1..Len(d.items) : d.items[i].k = key].v

\* x or ""
TextOf(v) == IF Falsy(v) THEN <<>> ELSE v.s

\* (list(row.x) if row.x else [None])[0]
FirstOf(array) == IF array = <<>> THEN NoneKey ELSE array[1]

EndsWith(s, suffix) ==
    Len(s) >= Len(suffix) /\ SubSeq(s, Len(s) - Len(suffix) + 1, Len(s)) = suffix

\* sub in s
Contains(s, sub) ==
    \E i \in 0..(Len(s) - Len(sub)) : SubSeq(s, i + 1, i + Len(sub)) = sub

RECURSIVE Join(_, _)
Join(texts, sep) ==
    IF texts = <<>> THEN <<>>
    ELSE IF Len(texts) = 1 THEN texts[1]
    ELSE texts[1] \o sep \o Join(Tail(texts), sep)

\* _estimate_mp3_duration(file_size_bytes) at 128 kbps; the sizes of the rows
\* are far below the range where the float division is inexact.
_estimate_mp3_duration_rounded(file_size_bytes) ==
    IF file_size_bytes <= 0 THEN 0 ELSE (file_size_bytes * 8 + 64000) \div (128 * 1000)

_estimate_mp3_duration(file_size_bytes) ==
    IF file_size_bytes <= 0 THEN 0 ELSE (file_size_bytes * 8) \div (128 * 1000)

_rights_text(flag) ==
    IF ~Falsy(flag)
    THEN <<"C", "o", "p", "y", "r", "i", "g", "h", "t", "e", "d", ".", " ", "R", "e", "a", "d",
        " ", "t", "h", "e", " ", "c", "o", "p", "y", "r", "i", "g", "h", "t", " ", "n", "o", "t",
        "i", "c", "e", " ", "i", "n", "s", "i", "d", "e", " ", "t", "h", "i", "s", " ", "b", "o",
        "o", "k", " ", "f", "o", "r", " ", "d", "e", "t", "a", "i", "l", "s", ".">>
    ELSE <<"P", "u", "b", "l", "i", "c", " ", "d", "o", "m", "a", "i", "n", " ", "i", "n", " ",
        "t", "h", "e", " ", "U", "S", "A", ".">>

RECURSIVE lstrip(_, _)
lstrip(text, chars) ==
    IF text # <<>> /\ text[1] \in chars THEN lstrip(Tail(text), chars) ELSE text

_gutenberg_url(path) ==
    IF path = <<>> THEN <<>>
    ELSE IF StartsWith(path, <<"h", "t", "t", "p", ":", "/", "/">>) \/ StartsWith(path, <<"h",
        "t", "t", "p", "s", ":", "/", "/">>) THEN path
    ELSE <<"h", "t", "t", "p", "s", ":", "/", "/", "w", "w", "w", ".", "g", "u", "t", "e", "n",
        "b", "e", "r", "g", ".", "o", "r", "g", "/">> \o lstrip(path, {"/"})

EbookUrl(row) == <<"h", "t", "t", "p", "s", ":", "/", "/", "w", "w", "w", ".", "g", "u", "t", "e",
    "n", "b", "e", "r", "g", ".", "o", "r", "g", "/", "e", "b", "o", "o", "k", "s",
    "/">> \o IntVal(row.book_id)

OpenAccess == StrKey(<<"h", "t", "t", "p", ":", "/", "/", "o", "p", "d", "s", "-", "s", "p", "e",
    "c", ".", "o", "r", "g", "/", "a", "c", "q", "u", "i", "s", "i", "t", "i", "o", "n", "/", "o",
    "p", "e", "n", "-", "a", "c", "c", "e", "s", "s">>)

\* html.escape(p)
RECURSIVE html_escape(_)
html_escape(text) ==
    IF text = <<>> THEN <<>>
    ELSE (CASE text[1] = "&" -> <<"&", "a", "m", "p", ";">>
            [] text[1] = "<" -> <<"&", "l", "t", ";">>
            [] text[1] = ">" -> <<"&", "g", "t", ";">>
            [] text[1] = "\"" -> <<"&", "q", "u", "o", "t", ";">>
            [] text[1] = "'" -> <<"&", "#", "x", "2", "7", ";">>
            [] OTHER -> <<text[1]>>) \o html_escape(Tail(text))

\* (f.get("filetype") or "").strip().lower()
FileType(f) == lower(Strip(TextOf(f.filetype)))

\* f.get("extent") and f["extent"] > 0
Positive(v) == v.kind = "int" /\ v.n > 0

\* re.search(r'-(\d+)\.mp3$', fn, re.IGNORECASE): the digits of the match.
\* '$' matches at the end of fn and before a newline that ends it.
RECURSIVE TrailingDigits(_)
TrailingDigits(text) ==
    IF text # <<>> /\ text[Len(text)] \in Digits
    THEN Append(TrailingDigits(SubSeq(text, 1, Len(text) - 1)), text[Len(text)])
    ELSE <<>>

PartDigits(fn) ==
    LET line == IF fn # <<>> /\ fn[Len(fn)] = "\n" THEN SubSeq(fn, 1, Len(fn) - 1) ELSE fn
        stem == SubSeq(line, 1, Len(line) - 4)
        digits == TrailingDigits(stem)
    IN  IF /\ EndsWith(lower(line), <<".", "m", "p", "3">>)
           /\ digits # <<>>
           /\ Len(stem) > Len(digits)
           /\ stem[Len(stem) - Len(digits)] = "-"
        THEN digits ELSE <<>>

\* The track of one MP3 file (lines 244-259).
Track(f) ==
    Dict(<<Item("href", StrKey(_gutenberg_url(f.filename.s))),
           Item("type", StrKey(<<"a", "u", "d", "i", "o", "/", "m", "p", "e", "g">>)),
           Item("bitrate", IntKey(128))>>
         \o (IF Positive(f.extent)
             THEN <<Item("duration", IntKey(_estimate_mp3_duration(f.extent.n)))>> ELSE <<>>)
         \o (IF PartDigits(f.filename.s) # <<>>
             THEN <<Item("title", StrKey(<<"P", "a", "r", "t",
                 " ">> \o PartDigits(f.filename.s)))>>
             ELSE <<>>))

IsMp3(f) == ~Falsy(f.filename) /\ FileType(f) = <<"m", "p", "3">>

\* Comparison of two str keys of the sort: by code point, the shorter first.
CodePoints == <<" ", "0", "1", "2", "3", "4", "5", "6", "7", "8", "9", "P", "a", "r", "t">>
Ord(c) == CHOOSE i \in 1..Len(CodePoints) : CodePoints[i] = c

RECURSIVE StrLess(_, _)
StrLess(a, b) ==
    IF a = <<>> THEN b # <<>>
    ELSE IF b = <<>> THEN FALSE
    ELSE IF a[1] = b[1] THEN StrLess(Tail(a), Tail(b))
    ELSE Ord(a[1]) < Ord(b[1])

\* t.get("title", "")
TitleKey(t) == IF Has(t, "title") THEN Get(t, "title").s ELSE <<>>

\* reading_order.sort(key=lambda t: t.get("title", "")): a stable sort
RECURSIVE SortByTitle(_)
SortByTitle(tracks) ==
    IF tracks = <<>> THEN <<>>
    ELSE LET sorted == SortByTitle(SubSeq(tracks, 1, Len(tracks) - 1))
             t == tracks[Len(tracks)]
             n == Cardinality({i \in 1..Len(sorted) :
                                  ~StrLess(TitleKey(t), TitleKey(sorted[i]))})
         IN  SubSeq(sorted, 1, n) \o <<t>> \o SubSeq(sorted, n + 1, Len(sorted))

ReadingOrder(formats) ==
    LET mp3 == SelectSeq(formats, IsMp3)
    IN  SortByTitle([i \in 1..Len(mp3) |-> Track(mp3[i])])

RECURSIVE TotalDuration(_)
TotalDuration(formats) ==
    IF formats = <<>> THEN 0
    ELSE (IF IsMp3(formats[1]) /\ Positive(formats[1].extent)
          THEN _estimate_mp3_duration(formats[1].extent.n) ELSE 0)
         + TotalDuration(Tail(formats))

HtmlLink(row) ==
    Dict(<<Item("rel", OpenAccess), Item("href", StrKey(EbookUrl(row))),
           Item("type", StrKey(<<"t", "e", "x", "t", "/", "h", "t", "m", "l">>))>>)

IsZip(f) ==
    EndsWith(TextOf(f.filename), <<"-", "m", "p", "3", ".", "z", "i",
        "p">>) \/ EndsWith(TextOf(f.filename), <<"_", "m", "p", "3", ".", "z", "i", "p">>)

ZipLink(f) ==
    Dict(<<Item("rel", OpenAccess), Item("href", StrKey(_gutenberg_url(f.filename.s))),
           Item("type", StrKey(<<"a", "p", "p", "l", "i", "c", "a", "t", "i", "o", "n", "/", "z",
               "i", "p">>)),
           Item("title", StrKey(<<"D", "o", "w", "n", "l", "o", "a", "d", " ", "a", "l", "l", " ",
               "M", "P", "3", "s", " ", "(", "Z", "I", "P", ")">>))>>
         \o (IF Positive(f.extent) THEN <<Item("length", f.extent)>> ELSE <<>>))

\* A link for every archive of the row.
AudioLinksEveryZip(row, formats) ==
    LET self == Dict(<<Item("rel", StrKey(<<"s", "e", "l", "f">>))>>)
        zips == SelectSeq(formats, IsZip)
    IN  <<self>> \o (IF zips # <<>> THEN [i \in 1..Len(zips) |-> ZipLink(zips[i])]
                     ELSE <<HtmlLink(row)>>)

\* The links of an audio work (lines 268-294).
AudioLinks(row, formats) ==
    LET self == Dict(<<Item("rel", StrKey(<<"s", "e", "l", "f">>)),
                       Item("href", StrKey(EbookUrl(row) \o <<".", "a", "u", "d", "i", "o", "b",
                           "o", "o", "k">>)),
                       Item("type", StrKey(<<"a", "p", "p", "l", "i", "c", "a", "t", "i", "o",
                           "n", "/", "a", "u", "d", "i", "o", "b", "o", "o", "k", "+", "j", "s",
                           "o", "n">>))>>)
        zips == SelectSeq(formats, IsZip)
    IN  <<self, IF zips # <<>> THEN ZipLink(zips[1]) ELSE HtmlLink(row)>>

PreferenceOrder ==
    <<<<"e", "p", "u", "b", "3", ".", "i", "m", "a", "g", "e", "s">>, <<"e", "p", "u", "b", ".",
        "i", "m", "a", "g", "e", "s">>, <<"e", "p", "u", "b", ".", "n", "o", "i", "m", "a", "g",
        "e", "s">>, <<"k", "i", "n", "d", "l", "e", ".", "i", "m", "a", "g", "e", "s">>,
      <<"p", "d", "f", ".", "i", "m", "a", "g", "e", "s">>, <<"p", "d", "f", ".", "n", "o", "i",
          "m", "a", "g", "e", "s">>, <<"h", "t", "m", "l">>>>

FormatLink(f) ==
    Dict(<<Item("rel", OpenAccess), Item("href", StrKey(_gutenberg_url(f.filename.s))),
           Item("type", StrKey(IF Strip(TextOf(f.mediatype)) # <<>>
                               THEN Strip(TextOf(f.mediatype))
                               ELSE <<"a", "p", "p", "l", "i", "c", "a", "t", "i", "o", "n", "/",
                                   "e", "p", "u", "b", "+", "z", "i", "p">>))>>
         \o (IF Positive(f.extent) THEN <<Item("length", f.extent)>> ELSE <<>>)
         \o (IF ~Falsy(f.hr_filetype) THEN <<Item("title", f.hr_filetype)>> ELSE <<>>))

FilesOfType(formats, try_format) ==
    SelectSeq(formats, LAMBDA f : ~Falsy(f.filename) /\ FileType(f) = try_format)

TextLinksRowOrder(row, formats) ==
    LET listed == SelectSeq(formats, LAMBDA f : \E k \in 1..Len(PreferenceOrder) :
                                                  FilesOfType(<<f>>, PreferenceOrder[k]) # <<>>)
    IN  IF listed = <<>> THEN <<HtmlLink(row)>> ELSE <<FormatLink(listed[1])>>

\* The links of a text work (lines 296-328).
TextLinks(row, formats) ==
    LET found == SelectSeq(PreferenceOrder, LAMBDA t : FilesOfType(formats, t) # <<>>)
    IN  IF found = <<>> THEN <<HtmlLink(row)>>
        ELSE <<FormatLink(FilesOfType(formats, found[1])[1])>>

\* The cover loop (lines 342-349).
RECURSIVE Images(_, _)
Images(formats, images) ==
    IF formats = <<>> THEN images
    ELSE LET f == formats[1]
             ft == TextOf(f.filetype)
             img == Dict(<<Item("href", StrKey(_gutenberg_url(TextOf(f.filename)))),
                           Item("type", StrKey(<<"i", "m", "a", "g", "e", "/", "j", "p", "e",
                               "g">>))>>)
         IN  IF /\ ~Falsy(f.filename)
                /\ (Contains(ft, <<"c", "o", "v", "e", "r", ".", "m", "e", "d", "i", "u",
                    "m">>) \/ (Contains(ft, <<"c", "o", "v", "e", "r">>) /\ images = <<>>))
             THEN IF Contains(ft, <<"c", "o", "v", "e", "r", ".", "m", "e", "d", "i", "u",
                 "m">>) THEN Append(images, img)
                  ELSE Images(Tail(formats), Append(images, img))
             ELSE Images(Tail(formats), images)

\* "<p>" + "</p><p>".join(html.escape(p) for p in desc_parts) + "</p>"
\* (lines 194-209).  The rows below have no creators, so there is no
\* "Creators:" part, no author and no narrator (ContributorFormat is not
\* part of this model).
Description(row) ==
    LET summary == FirstOf(row.summary)
        credits == FirstOf(row.credits)
        dcmitype == SelectSeq(row.dcmitypes, LAMBDA t : ~Falsy(t))
        desc_parts ==
            (IF ~Falsy(summary) THEN <<summary.s>> ELSE <<>>)
            \o (IF ~Falsy(credits) THEN <<<<"C", "r", "e", "d", "i", "t", "s", ":",
                " ">> \o credits.s>> ELSE <<>>)
            \o (IF ~Falsy(row.reading_level)
                THEN <<<<"R", "e", "a", "d", "i", "n", "g", " ", "L", "e", "v", "e", "l", ":",
                    " ">> \o row.reading_level.s>> ELSE <<>>)
            \o (IF dcmitype # <<>>
                THEN <<<<"C", "a", "t", "e", "g", "o", "r", "y", ":", " ">>
                       \o Join([i \in 1..Len(dcmitype) |-> dcmitype[i].s], <<",", " ">>)>>
                ELSE <<>>)
            \o <<<<"R", "i", "g", "h", "t", "s", ":", " ">> \o _rights_text(row.copyrighted)>>
            \o <<<<"D", "o", "w", "n", "l", "o", "a", "d", "s", ":",
                " ">> \o IntVal(row.downloads.n)>>
    IN  <<"<", "p", ">">> \o Join([i \in 1..Len(desc_parts) |-> html_escape(desc_parts[i])],
        <<"<", "/", "p", ">", "<", "p", ">">>)
        \o <<"<", "/", "p", ">">>

Accessibility(is_audio) ==
    LET one(text) == ListOf(<<StrKey(text)>>)
        profile == <<"h", "t", "t", "p", "s", ":", "/", "/", "r", "e", "a", "d", "i", "u", "m",
            ".", "o", "r", "g", "/", "w", "e", "b", "p", "u", "b", "-", "m", "a", "n", "i", "f",
            "e", "s", "t", "/", "p", "r", "o", "f", "i", "l", "e", "s", "/", "a", "u", "d", "i",
            "o", "b", "o", "o", "k">>
    IN  IF is_audio
        THEN Dict(<<Item("hazard", one(<<"n", "o", "n", "e">>)), Item("conformsTo", one(profile)),
                    Item("accessMode", one(<<"a", "u", "d", "i", "t", "o", "r", "y">>)),
                    Item("accessModeSufficient", ListOf(<<one(<<"a", "u", "d", "i", "t", "o", "r",
                        "y">>)>>)),
                    Item("feature", one(<<"u", "n", "l", "o", "c", "k", "e", "d">>))>>)
        ELSE Dict(<<Item("hazard", one(<<"n", "o", "n", "e">>)),
                    Item("accessMode", one(<<"t", "e", "x", "t", "u", "a", "l">>)),
                    Item("accessModeSufficient", ListOf(<<one(<<"t", "e", "x", "t", "u", "a",
                        "l">>)>>)),
                    Item("feature", ListOf(<<StrKey(<<"d", "i", "s", "p", "l", "a", "y", "T", "r",
                        "a", "n", "s", "f", "o", "r", "m", "a", "b", "i", "l", "i", "t", "y">>),
                                             StrKey(<<"u", "n", "l", "o", "c", "k", "e",
                                                 "d">>)>>))>>)

Metadata(row, formats) ==
    LET named == _build_subjects(row)
        locc_codes == SelectSeq(row.locc_codes, LAMBDA c : ~Falsy(c))
        subjects == [i \in 1..Len(named) |-> named[i].subject] \o locc_codes
        shelves == _build_bookshelves(row)
        collections ==
            [i \in 1..Len(shelves) |->
                Dict(<<Item("name", shelves[i].bookshelf),
                       Item("identifier",
                            StrKey(<<"h", "t", "t", "p", "s", ":", "/", "/", "w", "w", "w", ".",
                                "g", "u", "t", "e", "n", "b", "e", "r", "g", ".", "o", "r", "g",
                                "/", "e", "b", "o", "o", "k", "s", "/", "b", "o", "o", "k", "s",
                                "h", "e", "l", "f", "/">>
                                   \o (IF shelves[i].id.kind = "int" THEN IntVal(shelves[i].id.n)
                                       ELSE <<"N", "o", "n", "e">>)))>>)]
            \o [i \in 1..Len(locc_codes) |->
                Dict(<<Item("name", locc_codes[i]),
                       Item("identifier", StrKey(<<"h", "t", "t", "p", "s", ":", "/", "/", "w",
                           "w", "w", ".", "g", "u", "t", "e", "n", "b", "e", "r", "g", ".", "o",
                           "r", "g", "/", "e", "b", "o", "o", "k", "s", "/", "l", "o", "c", "c",
                           "/">>
                                                 \o locc_codes[i].s))>>)]
        language == IF Falsy(FirstOf(row.lang_codes)) THEN StrKey(<<"e", "n">>)
                    ELSE FirstOf(row.lang_codes)
    IN  Dict(<<Item("@type", StrKey(IF row.is_audio THEN <<"h", "t", "t", "p", ":", "/", "/", "s",
        "c", "h", "e", "m", "a", ".", "o", "r", "g", "/", "A", "u", "d", "i", "o", "b", "o", "o",
        "k">>
                                    ELSE <<"h", "t", "t", "p", ":", "/", "/", "s", "c", "h", "e",
                                        "m", "a", ".", "o", "r", "g", "/", "B", "o", "o", "k">>)),
               Item("identifier", StrKey(<<"u", "r", "n", ":", "g", "u", "t", "e", "n", "b", "e",
                   "r", "g", ":">> \o IntVal(row.book_id))),
               Item("title", row.title),
               Item("language", language)>>
             \o (IF row.is_audio
                 THEN <<Item("conformsTo",
                             StrKey(<<"h", "t", "t", "p", "s", ":", "/", "/", "r", "e", "a", "d",
                                 "i", "u", "m", ".", "o", "r", "g", "/", "w", "e", "b", "p", "u",
                                 "b", "-", "m", "a", "n", "i", "f", "e", "s", "t", "/", "p", "r",
                                 "o", "f", "i", "l", "e", "s", "/", "a", "u", "d", "i", "o", "b",
                                 "o", "o", "k">>))>>
                 ELSE <<>>)
             \o <<Item("accessibility", Accessibility(row.is_audio))>>
             \o (IF ~Falsy(row.release_date) THEN <<Item("published", row.release_date)>>
                 ELSE <<>>)
             \o <<Item("description", StrKey(Description(row)))>>
             \o (IF subjects # <<>> THEN <<Item("subject", ListOf(subjects))>> ELSE <<>>)
             \o (IF ~Falsy(row.publisher) THEN <<Item("publisher", row.publisher)>> ELSE <<>>)
             \o (IF collections # <<>>
                 THEN <<Item("belongsTo", Dict(<<Item("collection", ListOf(collections))>>))>>
                 ELSE <<>>)
             \o (IF row.is_audio /\ TotalDuration(formats) > 0
                 THEN <<Item("duration", IntKey(TotalDuration(formats)))>> ELSE <<>>))

\* crosswalk_opds without its decorator.
opds_record(row) ==
    LET formats == _build_formats(row)
        reading_order == IF row.is_audio THEN ReadingOrder(formats) ELSE <<>>
        links == IF row.is_audio THEN AudioLinks(row, formats) ELSE TextLinks(row, formats)
        images == Images(formats, <<>>)
        cover(img) == Dict(<<Item("rel", StrKey(<<"c", "o", "v", "e", "r">>))>> \o img.items)
    IN  Dict((IF row.is_audio
              THEN <<Item("@context",
                          StrKey(<<"h", "t", "t", "p", ":", "/", "/", "r", "e", "a", "d", "i",
                              "u", "m", ".", "o", "r", "g", "/", "w", "e", "b", "p", "u", "b",
                              "-", "m", "a", "n", "i", "f", "e", "s", "t", "/", "c", "o", "n",
                              "t", "e", "x", "t", ".", "j", "s", "o", "n", "l", "d">>))>>
              ELSE <<>>)
             \o <<Item("metadata", Metadata(row, formats)), Item("links", ListOf(links))>>
             \o (IF reading_order # <<>> THEN <<Item("readingOrder", ListOf(reading_order))>>
                 ELSE <<>>)
             \o (IF images # <<>> THEN <<Item("images", ListOf(images))>> ELSE <<>>)
             \o (IF images # <<>> /\ row.is_audio
                 THEN <<Item("resources", ListOf([i \in 1..Len(images) |-> cover(images[i])]))>>
                 ELSE <<>>))

\* LANGUAGE_LABELS.get(code, code)
LanguageLabel(code) == IF code = <<"e", "n">> THEN <<"E", "n", "g", "l", "i", "s", "h">> ELSE code

\* crosswalk_pg without its decorator; "format" holds a ContributorFormat
\* object, which is no string, dict or list.
pg_record(row) ==
    LET creators == _build_creators(row)
        named == _build_subjects(row)
        shelves == _build_bookshelves(row)
        codes == SelectSeq(row.lang_codes, LAMBDA c : ~Falsy(c))
        formats == _build_formats(row)
    IN  Dict(<<Item("ebook_no", IntKey(row.book_id)),
               Item("title", row.title),
               Item("contributors",
                    ListOf([i \in 1..Len(creators) |->
                              Dict(<<Item("id", creators[i].id), Item("name", creators[i].name),
                                     Item("role", creators[i].role),
                                     Item("born_floor", creators[i].born_floor),
                                     Item("born_ceil", creators[i].born_ceil),
                                     Item("died_floor", creators[i].died_floor),
                                     Item("died_ceil", creators[i].died_ceil)>>)])),
               Item("language",
                    ListOf([i \in 1..Len(codes) |->
                              Dict(<<Item("code", codes[i]),
                                     Item("name", StrKey(LanguageLabel(codes[i].s)))>>)])),
               Item("subjects", ListOf([i \in 1..Len(named) |-> named[i].subject])),
               Item("bookshelves", ListOf([i \in 1..Len(shelves) |-> shelves[i].bookshelf])),
               Item("release_date", row.release_date),
               Item("downloads_last_30_days", row.downloads),
               Item("files",
                    ListOf([i \in 1..Len(formats) |->
                              Dict(<<Item("filename", formats[i].filename),
                                     Item("type", formats[i].mediatype),
                                     Item("size", formats[i].extent)>>)])),
               Item("cover_url", FirstOf(row.coverpage)),
               Item("format", [kind |-> "object"])>>)

\* format_dict and format_list (lines 72-99): every str is replaced by
\* format_field of it, under its own key or the key of the list it is in.
RECURSIVE format_dict(_)
RECURSIVE format_list(_, _)
format_value(key, value) ==
    CASE value.kind = "str" -> StrKey(format_field(key, value.s))
      [] value.kind = "dict" -> format_dict(value)
      [] value.kind = "array" -> format_list(key, value)
      [] OTHER -> value

format_dict(d) ==
    Dict([i \in 1..Len(d.items) |-> Item(d.items[i].k, format_value(d.items[i].k, d.items[i].v))])

\* The dicts of a list are kept as they are.
format_list_shallow(parent_key, lst) ==
    ListOf([i \in 1..Len(lst.items) |->
               IF lst.items[i].kind = "dict" THEN lst.items[i]
               ELSE format_value(parent_key, lst.items[i])])

format_list(parent_key, lst) ==
    ListOf([i \in 1..Len(lst.items) |->
               IF lst.items[i].kind = "dict" THEN format_dict(lst.items[i])
               ELSE format_value(parent_key, lst.items[i])])

\* @format_dict_result
crosswalk_opds(row) == format_dict(opds_record(row))
crosswalk_pg(row) == format_dict(pg_record(row))

\* The rows handed to the transformers.  A file is one position of the five
\* format arrays: filename, filetype, hr_filetype, mediatype, extent.
File(fn, ftype, hr, med, extent) ==
    [filename |-> fn, filetype |-> ftype, hr_filetype |-> hr, mediatype |-> med,
     extent |-> extent]

TextFiles ==
    { File(StrKey(<<"7", ".", "e", "p", "u", "b", "3">>), StrKey(<<"e", "p", "u", "b", "3", ".",
        "i", "m", "a", "g", "e", "s">>), StrKey(<<"E", "P", "U", "B", "3">>),
           StrKey(<<"a", "p", "p", "l", "i", "c", "a", "t", "i", "o", "n", "/", "e", "p", "u",
               "b", "+", "z", "i", "p">>), IntKey(100)),
      File(StrKey(<<"/", "7", ".", "e", "p", "u", "b">>), StrKey(<<" ", "E", "P", "U", "B", ".",
          "i", "m", "a", "g", "e", "s", " ">>), NoneKey, NoneKey, NoneKey),
      File(StrKey(<<"7", ".", "n", ".", "e", "p", "u", "b">>), StrKey(<<"e", "p", "u", "b", ".",
          "n", "o", "i", "m", "a", "g", "e", "s">>), NoneKey, NoneKey, IntKey(0)),
      File(StrKey(<<"7", ".", "k", "f", "8">>), StrKey(<<"k", "i", "n", "d", "l", "e", ".", "i",
          "m", "a", "g", "e", "s">>), NoneKey, NoneKey, NoneKey),
      File(StrKey(<<"7", ".", "p", "d", "f">>), StrKey(<<"p", "d", "f", ".", "i", "m", "a", "g",
          "e", "s">>), StrKey(<<"P", "D", "F">>),
           StrKey(<<"a", "p", "p", "l", "i", "c", "a", "t", "i", "o", "n", "/", "p", "d", "f">>),
               IntKey(9)),
      File(StrKey(<<"7", ".", "n", ".", "p", "d", "f">>), StrKey(<<"p", "d", "f", ".", "n", "o",
          "i", "m", "a", "g", "e", "s">>), NoneKey, NoneKey, NoneKey),
      File(StrKey(<<"h", "t", "t", "p", "s", ":", "/", "/", "x", "/", "7", ".", "h", "t", "m",
          "l">>), StrKey(<<"h", "t", "m", "l">>), NoneKey, StrKey(<<"t", "e", "x", "t", "/", "h",
          "t", "m", "l">>),
           NoneKey),
      File(StrKey(<<"7", ".", "t", "x", "t">>), StrKey(<<"t", "x", "t">>), NoneKey, StrKey(<<"t",
          "e", "x", "t", "/", "p", "l", "a", "i", "n">>), IntKey(5)),
      File(StrKey(<<"7", ".", "s", ".", "j", "p", "g">>), StrKey(<<"c", "o", "v", "e", "r", ".",
          "s", "m", "a", "l", "l">>), NoneKey, NoneKey, NoneKey),
      File(StrKey(<<"7", ".", "m", ".", "j", "p", "g">>), StrKey(<<"c", "o", "v", "e", "r", ".",
          "m", "e", "d", "i", "u", "m">>), NoneKey, NoneKey, NoneKey) }

AudioFiles ==
    { File(StrKey(<<"7", "-", "2", ".", "m", "p", "3">>), StrKey(<<"m", "p", "3">>), NoneKey,
        NoneKey, IntKey(32000)),
      File(StrKey(<<"7", "-", "1", "0", ".", "M", "P", "3">>), StrKey(<<" ", "M", "P", "3">>),
          NoneKey, NoneKey, IntKey(47999)),
      File(StrKey(<<"7", "-", "0", "3", ".", "m", "p", "3">>), StrKey(<<"m", "p", "3">>), NoneKey,
          NoneKey, IntKey(15999)),
      File(StrKey(<<"7", ".", "m", "p", "3">>), StrKey(<<"m", "p", "3">>), NoneKey, NoneKey,
          NoneKey),
      File(StrKey(<<"7", "-", "m", "p", "3", ".", "z", "i", "p">>), StrKey(<<"z", "i", "p">>),
          NoneKey, NoneKey, IntKey(5)),
      File(StrKey(<<"7", "_", "m", "p", "3", ".", "z", "i", "p">>), StrKey(<<"z", "i", "p">>),
          NoneKey, NoneKey, NoneKey),
      File(StrKey(<<"h", "t", "t", "p", "s", ":", "/", "/", "x", "/", "7", ".", "h", "t", "m",
          "l">>), StrKey(<<"h", "t", "m", "l">>), NoneKey, StrKey(<<"t", "e", "x", "t", "/", "h",
          "t", "m", "l">>),
           NoneKey),
      File(StrKey(<<"7", ".", "s", ".", "j", "p", "g">>), StrKey(<<"c", "o", "v", "e", "r", ".",
          "s", "m", "a", "l", "l">>), NoneKey, NoneKey, NoneKey),
      File(StrKey(<<"7", ".", "m", ".", "j", "p", "g">>), StrKey(<<"c", "o", "v", "e", "r", ".",
          "m", "e", "d", "i", "u", "m">>), NoneKey, NoneKey, NoneKey) }

\* The row whose format arrays hold the files, in this order.
WithFiles(is_audio, files) ==
    [EmptyRow EXCEPT
        !.is_audio = is_audio,
        !.format_filenames = [i \in 1..Len(files) |-> files[i].filename],
        !.format_filetypes = [i \in 1..Len(files) |-> files[i].filetype],
        !.format_hr_filetypes = [i \in 1..Len(files) |-> files[i].hr_filetype],
        !.format_mediatypes = [i \in 1..Len(files) |-> files[i].mediatype],
        !.format_extents = [i \in 1..Len(files) |-> files[i].extent]]

MaxFiles == 3

Marked == StrKey(<<"$", "a", "S", "e", "a", " ", ":", "T", "a", "l", "e", ";">>)

FileRows ==
    {WithFiles(FALSE, files) : files \in Arrays(TextFiles, MaxFiles)}
    \cup {WithFiles(TRUE, files) : files \in Arrays(AudioFiles, MaxFiles)}

TextRows ==
    { [EmptyRow EXCEPT
          !.is_audio = is_audio, !.title = title, !.summary = summary, !.credits = credits,
          !.publisher = publisher, !.subject_names = names, !.bookshelf_names = names,
          !.bookshelf_ids = <<IntKey(3)>>, !.locc_codes = names] :
      is_audio \in BOOLEAN,
      title \in {StrKey(<<"T">>), Marked, NoneKey},
      summary \in {<<>>, <<Marked>>},
      credits \in {<<>>, <<NoneKey>>, <<StrKey(<<"B", "y", " ", "A", ".">>)>>,
                   <<StrKey(<<"B", "y", " ", "A", ".", " ", "U", "p", "d", "a", "t", "e", "d",
                       ":", " ", "2", "0", "2", "0", "-", "0", "1", "-", "0", "1", " ", "<", "b",
                       ">">>)>>,
                   <<StrKey(<<"B", "y", " ", "A", ".", "\n", "u", "p", "d", "a", "t", "e", ":",
                       " ", "l", "a", "t", "e", "r">>)>>},
      publisher \in {NoneKey, Marked},
      names \in {<<>>, <<Marked>>, <<NoneKey, StrKey(<<"P", "Z">>)>>} }

CrosswalkRows == FileRows \cup TextRows

\* CROSSWALK_MAP[Crosswalk.OPDS](row)
CrosswalkOpds ==
    /\ xw.step = "row"
    /\ xw' = [step |-> "opds", row |-> xw.row, out |-> crosswalk_opds(xw.row)]
    /\ KeepRest

\* CROSSWALK_MAP[Crosswalk.PG](row)
CrosswalkPg ==
    /\ xw.step = "row"
    /\ xw' = [step |-> "pg", row |-> xw.row, out |-> crosswalk_pg(xw.row)]
    /\ KeepRest

NextCrosswalk == CrosswalkOpds \/ CrosswalkPg

SpecCrosswalk == InitRow(CrosswalkRows) /\ [][NextCrosswalk]_vars

\* ---------------------------------------------------------------------------
\* Claims about the transformers.

Description_of(out) == Get(Get(out, "metadata"), "description").s

\* C21: the credits text of an output record is cut at the first "Updated:"
\* marker (either case): the marker and what follows it are absent from the
\* credits every crosswalk renders, the credits paragraph of the
\* acquisition-feed description included.
C21_CreditsTruncated ==
    (xw.step = "opds" /\ ~Falsy(FirstOf(xw.row.credits))) =>
        /\ Contains(Description_of(xw.out), <<"<", "p", ">", "C", "r", "e", "d", "i", "t", "s",
            ":", " ">>)
        /\ \A m \in UpdatedMarkers : ~Contains(Description_of(xw.out), m)

\* The str values of a record in traversal order, each with the key
\* format_dict sees it under (the key of the enclosing list for a list item).
RECURSIVE Leaves(_, _)
RECURSIVE LeavesOfAll(_, _, _)
Leaves(value, key) ==
    CASE value.kind = "str" -> <<[k |-> key, s |-> value.s]>>
      [] value.kind = "dict" -> LeavesOfAll(value.items, key, TRUE)
      [] value.kind = "array" -> LeavesOfAll(value.items, key, FALSE)
      [] OTHER -> <<>>

LeavesOfAll(items, key, keyed) ==
    IF items = <<>> THEN <<>>
    ELSE (IF keyed THEN Leaves(items[1].v, items[1].k) ELSE Leaves(items[1], key))
         \o LeavesOfAll(Tail(items), key, keyed)

Undecorated == IF xw.step = "opds" THEN opds_record(xw.row) ELSE pg_record(xw.row)

\* C22 as stated: every str of a returned record, at any depth and whatever
\* its key, is the marker-stripped and punctuation-normalized text.
C22_EveryStringNormalized ==
    xw.step \in {"opds", "pg"} =>
        LET before == Leaves(Undecorated, "")
            after == Leaves(xw.out, "")
        IN  /\ Len(after) = Len(before)
            /\ \A i \in 1..Len(before) :
                  after[i].s = Strip(normalize_text(strip_marc_subfields(before[i].s)))

\* C22: every str of a returned record, at any depth, has been passed through
\* format_field under its key (a list item under the key of its list): it is
\* marker-stripped and normalized when that key is in _FIELDS_TO_FORMAT and
\* only trimmed otherwise; nothing else of the record is changed.
C22_EveryStringFormatted ==
    xw.step \in {"opds", "pg"} =>
        LET before == Leaves(Undecorated, "")
            after == Leaves(xw.out, "")
        IN  /\ Len(after) = Len(before)
            /\ \A i \in 1..Len(before) :
                  /\ after[i].k = before[i].k
                  /\ after[i].s =
                        IF before[i].k \in _FIELDS_TO_FORMAT
                        THEN Strip(normalize_text(strip_marc_subfields(before[i].s)))
                        ELSE Strip(before[i].s)

\* A marked bookshelf name three levels down is normalized and the link next
\* to it is not.
C22_Witness ==
    /\ xw.step = "opds"
    /\ xw.row.bookshelf_names = <<Marked>>
    /\ Has(Get(xw.out, "metadata"), "belongsTo")
    /\ LET collection == Get(Get(Get(xw.out, "metadata"), "belongsTo"), "collection").items[1]
       IN  /\ Get(collection, "name") = StrKey(<<"S", "e", "a", ":", " ", "T", "a", "l", "e">>)
           /\ Get(collection, "identifier")
                  = StrKey(<<"h", "t", "t", "p", "s", ":", "/", "/", "w", "w", "w", ".", "g", "u",
                      "t", "e", "n", "b", "e", "r", "g", ".", "o", "r", "g", "/", "e", "b", "o",
                      "o", "k", "s", "/", "b", "o", "o", "k", "s", "h", "e", "l", "f", "/", "3">>)

Links_of(out) == Get(out, "links").items
Files_of(row) == _build_formats(row)

\* The places of the preference order that have a file in the row.
Present(row) ==
    {k \in 1..Len(PreferenceOrder) :
        \E i \in 1..Len(Files_of(row)) : FileType(Files_of(row)[i]) = PreferenceOrder[k]}

FileTypes(row) == {FileType(Files_of(row)[i]) : i \in 1..Len(Files_of(row))}

CatalogPage == StrKey(<<"h", "t", "t", "p", "s", ":", "/", "/", "w", "w", "w", ".", "g", "u", "t",
    "e", "n", "b", "e", "r", "g", ".", "o", "r", "g", "/", "e", "b", "o", "o", "k", "s", "/",
    "7">>)

\* C23: for a text work the acquisition-feed transformer walks the preference
\* order (epub3.images, epub.images, epub.noimages, kindle.images, pdf.images,
\* pdf.noimages, html) and emits the link of the first format of that order
\* that has a file, whatever the order of the files in the row; a row with only
\* plain-text and pdf.images files gets the PDF link; a row with no matching
\* format gets exactly one generic web-page link to the catalog entry.
C23_FirstPreferredFormat ==
    (xw.step = "opds" /\ ~xw.row.is_audio) =>
        LET links == Links_of(xw.out)
            files == Files_of(xw.row)
        IN  /\ Len(links) = 1
            /\ Present(xw.row) = {} =>
                  /\ Get(links[1], "href") = CatalogPage
                  /\ Get(links[1], "type") = StrKey(<<"t", "e", "x", "t", "/", "h", "t", "m",
                      "l">>)
            /\ Present(xw.row) # {} =>
                  LET best == CHOOSE k \in Present(xw.row) : \A j \in Present(xw.row) : k <= j
                  IN  \E i \in 1..Len(files) :
                         /\ FileType(files[i]) = PreferenceOrder[best]
                         /\ Get(links[1], "href").s = _gutenberg_url(files[i].filename.s)
            /\ FileTypes(xw.row) = {<<"t", "x", "t">>, <<"p", "d", "f", ".", "i", "m", "a", "g",
                "e", "s">>} =>
                  Get(links[1], "href") = StrKey(<<"h", "t", "t", "p", "s", ":", "/", "/", "w",
                      "w", "w", ".", "g", "u", "t", "e", "n", "b", "e", "r", "g", ".", "o", "r",
                      "g", "/", "7", ".", "p", "d", "f">>)

\* A PDF listed before an EPUB: the EPUB link is emitted.
C23_Witness ==
    /\ xw.step = "opds"
    /\ ~xw.row.is_audio
    /\ Len(xw.row.format_filetypes) = 3
    /\ xw.row.format_filetypes[1] = StrKey(<<"p", "d", "f", ".", "i", "m", "a", "g", "e", "s">>)
    /\ xw.row.format_filetypes[2] = StrKey(<<"t", "x", "t">>)
    /\ xw.row.format_filetypes[3] = StrKey(<<" ", "E", "P", "U", "B", ".", "i", "m", "a", "g",
        "e", "s", " ">>)
    /\ Get(Links_of(xw.out)[1], "href") = StrKey(<<"h", "t", "t", "p", "s", ":", "/", "/", "w",
        "w", "w", ".", "g", "u", "t", "e", "n", "b", "e", "r", "g", ".", "o", "r", "g", "/", "7",
        ".", "e", "p", "u", "b">>)
    /\ Get(Links_of(xw.out)[1], "type") = StrKey(<<"a", "p", "p", "l", "i", "c", "a", "t", "i",
        "o", "n", "/", "e", "p", "u", "b", "+", "z", "i", "p">>)

OpenAccessLinks(out) == SelectSeq(Links_of(out), LAMBDA l : Get(l, "rel") = OpenAccess)

\* C24: every acquisition-feed entry, text or audio, carries exactly one
\* open-access acquisition link: for text the first preferred format or else
\* the generic web page; for audio the bundled MP3 archive if the row has one
\* or else the generic web page, next to the audio entry's self link.
C24_OneAcquisitionLink ==
    xw.step = "opds" =>
        LET open == OpenAccessLinks(xw.out)
            files == Files_of(xw.row)
            archives == {i \in 1..Len(files) : IsZip(files[i])}
        IN  /\ Len(open) = 1
            /\ (~xw.row.is_audio /\ Present(xw.row) = {}) => Get(open[1], "href") = CatalogPage
            /\ (~xw.row.is_audio /\ Present(xw.row) # {}) =>
                  \E i \in 1..Len(files) :
                      Get(open[1], "href").s = _gutenberg_url(files[i].filename.s)
            /\ xw.row.is_audio =>
                  /\ Len(Links_of(xw.out)) = 2
                  /\ Get(Links_of(xw.out)[1], "rel") = StrKey(<<"s", "e", "l", "f">>)
                  /\ archives = {} => Get(open[1], "href") = CatalogPage
                  /\ archives # {} =>
                        /\ Get(open[1], "type") = StrKey(<<"a", "p", "p", "l", "i", "c", "a", "t",
                            "i", "o", "n", "/", "z", "i", "p">>)
                        /\ \E i \in archives :
                              Get(open[1], "href").s = _gutenberg_url(files[i].filename.s)

\* An audio row with two archives and an HTML file: one archive link.
C24_Witness ==
    /\ xw.step = "opds"
    /\ xw.row.is_audio
    /\ xw.row.format_filenames
           = <<StrKey(<<"h", "t", "t", "p", "s", ":", "/", "/", "x", "/", "7", ".", "h", "t", "m",
               "l">>), StrKey(<<"7", "_", "m", "p", "3", ".", "z", "i", "p">>), StrKey(<<"7", "-",
               "m", "p", "3", ".", "z", "i", "p">>)>>
    /\ Len(OpenAccessLinks(xw.out)) = 1
    /\ Get(OpenAccessLinks(xw.out)[1], "href") = StrKey(<<"h", "t", "t", "p", "s", ":", "/", "/",
        "w", "w", "w", ".", "g", "u", "t", "e", "n", "b", "e", "r", "g", ".", "o", "r", "g", "/",
        "7", "_", "m", "p", "3", ".", "z", "i", "p">>)

Tracks_of(out) == IF Has(out, "readingOrder") THEN Get(out, "readingOrder").items ELSE <<>>

\* The number a part title "Part <digits>" carries.
PartNumber(track) ==
    LET title == Get(track, "title").s IN DigitsVal(SubSeq(title, 6, Len(title)))

\* C25: for an audio work the reading order has exactly one track per MP3
\* file of the row, and the tracks whose filename carries a part number are in
\* ascending order of that number (part 2 before part 10), whatever the order
\* of the files in the row.
C25_TracksByPartNumber ==
    (xw.step = "opds" /\ xw.row.is_audio) =>
        LET tracks == Tracks_of(xw.out)
            numbered == SelectSeq(tracks, LAMBDA t : Has(t, "title"))
        IN  /\ Len(tracks) = Len(SelectSeq(Files_of(xw.row), IsMp3))
            /\ \A i, j \in 1..Len(numbered) :
                  i < j => PartNumber(numbered[i]) <= PartNumber(numbered[j])

RECURSIVE SumDurations(_)
SumDurations(tracks) ==
    IF tracks = <<>> THEN 0
    ELSE (IF Has(tracks[1], "duration") THEN Get(tracks[1], "duration").n ELSE 0)
         + SumDurations(Tail(tracks))

\* C26: each audio track with a positive byte size gets duration =
\* floor(bytes * 8 / 128000) whole seconds, a function of the byte size alone;
\* the duration of the work in the metadata is the sum of the durations of the
\* tracks of the reading order, and is absent when that sum is 0.
C26_Durations ==
    (xw.step = "opds" /\ xw.row.is_audio) =>
        LET tracks == Tracks_of(xw.out)
            files == Files_of(xw.row)
            metadata == Get(xw.out, "metadata")
        IN  /\ \A t \in 1..Len(tracks) :
                  \E i \in 1..Len(files) :
                      /\ IsMp3(files[i])
                      /\ Get(tracks[t], "href").s = _gutenberg_url(files[i].filename.s)
                      /\ IF Positive(files[i].extent)
                         THEN /\ Has(tracks[t], "duration")
                              /\ Get(tracks[t], "duration").n * 128000 <= files[i].extent.n * 8
                              /\ files[i].extent.n * 8
                                     < (Get(tracks[t], "duration").n + 1) * 128000
                         ELSE ~Has(tracks[t], "duration")
            /\ IF SumDurations(tracks) = 0 THEN ~Has(metadata, "duration")
               ELSE /\ Has(metadata, "duration")
                    /\ Get(metadata, "duration") = IntKey(SumDurations(tracks))

\* Tracks of 2, 2 and 0 seconds: the work lasts 4 seconds.
C26_Witness ==
    /\ xw.step = "opds"
    /\ xw.row.is_audio
    /\ xw.row.format_extents = <<IntKey(47999), IntKey(15999), IntKey(32000)>>
    /\ Len(Tracks_of(xw.out)) = 3
    /\ Get(Get(xw.out, "metadata"), "duration") = IntKey(4)
    /\ \E t \in 1..3 : Get(Tracks_of(xw.out)[t], "duration") = IntKey(0)

\* The files of the row that are covers: filetype contains "cover".
Covers(row, word) ==
    SelectSeq(Files_of(row), LAMBDA f : Contains(TextOf(f.filetype), word))

\* C27: cover selection of the acquisition-feed transformer: if any format of
\* the row is a medium-size cover the image emitted is that cover; only when
\* the row has none is the first format whose type contains "cover" emitted; a
\* row with no cover format gets no images entry (and no resources entry).
C27_CoverSelection ==
    xw.step = "opds" =>
        LET medium == Covers(xw.row, <<"c", "o", "v", "e", "r", ".", "m", "e", "d", "i", "u",
            "m">>)
            any == Covers(xw.row, <<"c", "o", "v", "e", "r">>)
            chosen == IF medium # <<>> THEN medium[1] ELSE any[1]
        IN  IF any = <<>> THEN ~Has(xw.out, "images") /\ ~Has(xw.out, "resources")
            ELSE /\ Has(xw.out, "images")
                 /\ Len(Get(xw.out, "images").items) = 1
                 /\ Get(Get(xw.out, "images").items[1], "href").s
                        = _gutenberg_url(chosen.filename.s)
                 /\ xw.row.is_audio =>
                        /\ Has(xw.out, "resources")
                        /\ Len(Get(xw.out, "resources").items) = 1

-----------------------------------------------------------------------------
\* The fields of a fetched row.

\* C30: every row field a transformer of CROSSWALK_MAP reads, the creator
\* birth and death year-range arrays included, is a column of the select list
\* of the fetch statement, so rendering the rows execute has fetched never
\* reads a field the row lacks: the envelope is returned.
C30_FieldsAreSelected ==
    pc = "done" /\ rows # <<>> /\ q._crosswalk \in DOMAIN CROSSWALK_MAP =>
        /\ db_log[2].sql[2] = Lit("_SELECT")
        /\ ColumnsRead(CROSSWALK_MAP[q._crosswalk]) \subseteq SelectColumns
        /\ outcome.kind = "returned"

-----------------------------------------------------------------------------
\* Concurrent callers of one FullTextSearch.
\*
\* thr.store    : the store every statement is answered from: the number of
\*                books, the number of books a WHERE matches, the rank the
\*                store gives to subjects of equal count
\* thr.calls    : one record per caller: the method called, the SearchQuery
\*                instance as it was given and as it is now, the position of
\*                the call, its session, its locals and what it returned
\* thr.sessions : the sessions self.Session() has made, each with the result
\*                of the statement executed last in it and the callers that
\*                executed a statement in it
\*
\* The specifications do not order by RANDOM(), and the store answers a
\* statement the same way every time it is asked.

MaxCallers == 2

Callers == 1..MaxCallers

Methods == {"execute", "count", "get_top_subjects_for_query"}

HasWhere(stmt) == \E i \in 1..Len(stmt.sql) : stmt.sql[i] = Lit("WHERE")

\* The books a statement's predicates match.
Matched(store, stmt) == IF HasWhere(stmt) THEN store.matched ELSE store.all

\* A row of a result: a book of a fetch statement or a subject with its count.
BookRow(n) == [book |-> n, id |-> 0, count |-> 0]
SubjectRow(r) == [book |-> 0, id |-> r.id, count |-> r.count]

NoResult == [scalar |-> 0, rows |-> <<>>]

\* The result the store gives to a statement.
Result(store, stmt) ==
    CASE stmt.sql[2] = Lit("COUNT(*)") ->
            [scalar |-> Matched(store, stmt), rows |-> <<>>]
      [] stmt.sql[2] = Lit("_SELECT") ->
            LET fetched == FetchRows(stmt, Matched(store, stmt))
            IN  [scalar |-> 0, rows |-> [i \in 1..Len(fetched) |-> BookRow(fetched[i])]]
      [] OTHER ->
            LET top == TopRows(stmt, Matched(store, stmt), store.tie)
            IN  [scalar |-> 0, rows |-> [i \in 1..Len(top) |-> SubjectRow(top[i])]]

\* One session for all the calls.
NewSessionShared(sessions) ==
    IF sessions = <<>>
    THEN <<[open |-> TRUE, cursor |-> NoResult, log |-> <<>>]>>
    ELSE sessions

\* self.Session(): every call makes a session of its own.
NewSession(sessions) ==
    Append(sessions, [open |-> TRUE, cursor |-> NoResult, log |-> <<>>])

\* session.execute(text(sql), params) by caller i: the session holds the result.
SessionExecute(sessions, sid, i, result) ==
    [sessions EXCEPT ![sid].cursor = result, ![sid].log = Append(@, i)]

\* The with block is left.
SessionClose(sessions, sid) == [sessions EXCEPT ![sid].open = FALSE]

\* The dict execute returns, or the error of the first row's rendering.
Envelope(s, rs, t, tp, custom) ==
    IF rs # <<>> /\ TransformRaises(s._crosswalk, custom)
    THEN [NoOutcome EXCEPT !.kind = "raised"]
    ELSE [kind |-> "returned",
          results |-> [i \in 1..Len(rs) |-> _transform(rs[i], s._crosswalk, custom)],
          page |-> s._page, page_size |-> s._page_size, total |-> t, total_pages |-> tp]

TopLimit == 15
TopMaxBooks == 1000

\* The three methods, each run alone against the store: the specification as
\* the call leaves it and what the call returns.
execute(s, store, custom) ==
    LET t == Result(store, build_count(s)).scalar
        tp == TotalPages(t, s._page_size)
        clamped == [s EXCEPT !._page = ClampPage(s._page, tp)]
        rs == Result(store, build(clamped)).rows
    IN  [q |-> clamped, outcome |-> Envelope(clamped, rs, t, tp, custom)]

count(s, store) ==
    [q |-> s,
     outcome |-> [NoOutcome EXCEPT !.kind = "returned",
                                   !.total = Result(store, build_count(s)).scalar]]

get_top_subjects_for_query(s, store) ==
    LET rs == Result(store, top_subjects_statement(s, TopLimit, TopMaxBooks)).rows
    IN  [q |-> s,
         outcome |-> [NoOutcome EXCEPT
                         !.kind = "returned",
                         !.results = [i \in 1..Len(rs) |->
                                         [id |-> rs[i].id, count |-> rs[i].count]]]]

Alone(method, s, store, custom) ==
    CASE method = "execute" -> execute(s, store, custom)
      [] method = "count" -> count(s, store)
      [] method = "get_top_subjects_for_query" -> get_top_subjects_for_query(s, store)

\* The store, and the specifications the callers pass: pages inside and
\* beyond the result, with and without a search clause.
Stores == {[all |-> MaxTotal, matched |-> 2, tie |-> [sid \in 1..NumSubjects |-> sid]]}

CallSpecs ==
    { getitem_tuple(query("custom"), MaxPage, MaxSize),
      getitem_tuple(search(query("pg"), <<"a">>, "book", "fts"), 2, 1),
      getitem_page(order_by(search(query("custom"), <<"a">>, "book", "fuzzy"),
                            "relevance", None), MaxPage) }

NewCall(method, s) ==
    [method |-> method, given |-> s, q |-> s, pc |-> "start", session |-> 0,
     total |-> 0, total_pages |-> 0, outcome |-> NoOutcome]

InitThreads ==
    /\ q = query("full")
    /\ call = NoCall
    /\ last_search = NoSearch
    /\ last_order = NoOrder
    /\ hist = <<>>
    /\ _custom_transformer \in BOOLEAN
    /\ pc = "idle"
    /\ req_page = 0
    /\ db_log = <<>>
    /\ total = 0
    /\ total_pages = 0
    /\ rows = <<>>
    /\ outcome = NoOutcome
    /\ sess = NoSessions
    /\ fmt = NoField
    /\ xw = NoRender
    /\ \E store \in Stores, methods \in [Callers -> Methods], specs \in [Callers -> CallSpecs] :
          thr = [store |-> store,
                 calls |-> [i \in Callers |-> NewCall(methods[i], specs[i])],
                 sessions |-> <<>>]

KeepCaller ==
    UNCHANGED <<bvars, _custom_transformer, pc, req_page, db_log, total, total_pages, rows,
                outcome, sess, fmt, xw>>

\* A call enters its with block and sends its first statement.
Enter(i, next, stmt) ==
    LET made == NewSession(thr.sessions)
        sid == Len(made)
    IN  /\ thr' = [thr EXCEPT
                      !.sessions = SessionExecute(made, sid, i, Result(thr.store, stmt)),
                      !.calls[i].pc = next,
                      !.calls[i].session = sid]
        /\ KeepCaller

\* execute by caller i: the session is made, the count statement sent.
CallerExecCount(i) ==
    /\ thr.calls[i].method = "execute"
    /\ thr.calls[i].pc = "start"
    /\ Enter(i, "count", build_count(thr.calls[i].q))

\* execute by caller i: the scalar is read from the call's session, the page
\* clamped, the fetch statement sent in the same session.
CallerExecFetch(i) ==
    LET c == thr.calls[i]
        t == thr.sessions[c.session].cursor.scalar
        tp == TotalPages(t, c.q._page_size)
        clamped == [c.q EXCEPT !._page = ClampPage(c.q._page, tp)]
    IN  /\ c.method = "execute"
        /\ c.pc = "count"
        /\ thr' = [thr EXCEPT
                      !.sessions = SessionExecute(thr.sessions, c.session, i,
                                                  Result(thr.store, build(clamped))),
                      !.calls[i] = [c EXCEPT !.pc = "fetch", !.q = clamped, !.total = t,
                                             !.total_pages = tp]]
        /\ KeepCaller

\* execute by caller i: the rows are read, the session closed, the rows
\* rendered and the envelope returned.
CallerExecReturn(i) ==
    LET c == thr.calls[i]
        rs == thr.sessions[c.session].cursor.rows
    IN  /\ c.method = "execute"
        /\ c.pc = "fetch"
        /\ thr' = [thr EXCEPT
                      !.sessions = SessionClose(thr.sessions, c.session),
                      !.calls[i] = [c EXCEPT
                                       !.pc = "done",
                                       !.outcome = Envelope(c.q, rs, c.total, c.total_pages,
                                                            _custom_transformer)]]
        /\ KeepCaller

\* count by caller i.
CallerCountOpen(i) ==
    /\ thr.calls[i].method = "count"
    /\ thr.calls[i].pc = "start"
    /\ Enter(i, "count_only", build_count(thr.calls[i].q))

CallerCountReturn(i) ==
    LET c == thr.calls[i]
    IN  /\ c.method = "count"
        /\ c.pc = "count_only"
        /\ thr' = [thr EXCEPT
                      !.sessions = SessionClose(thr.sessions, c.session),
                      !.calls[i] = [c EXCEPT
                                       !.pc = "done",
                                       !.outcome = [NoOutcome EXCEPT
                                           !.kind = "returned",
                                           !.total = thr.sessions[c.session].cursor.scalar]]]
        /\ KeepCaller

\* get_top_subjects_for_query by caller i, with the default limits.
CallerTopOpen(i) ==
    /\ thr.calls[i].method = "get_top_subjects_for_query"
    /\ thr.calls[i].pc = "start"
    /\ Enter(i, "top", top_subjects_statement(thr.calls[i].q, TopLimit, TopMaxBooks))

CallerTopReturn(i) ==
    LET c == thr.calls[i]
        rs == thr.sessions[c.session].cursor.rows
    IN  /\ c.method = "get_top_subjects_for_query"
        /\ c.pc = "top"
        /\ thr' = [thr EXCEPT
                      !.sessions = SessionClose(thr.sessions, c.session),
                      !.calls[i] = [c EXCEPT
                                       !.pc = "done",
                                       !.outcome = [NoOutcome EXCEPT
                                           !.kind = "returned",
                                           !.results = [k \in 1..Len(rs) |->
                                               [id |-> rs[k].id, count |-> rs[k].count]]]]]
        /\ KeepCaller

NextThreads ==
    \/ \E i \in Callers : CallerExecCount(i)
    \/ \E i \in Callers : CallerExecFetch(i)
    \/ \E i \in Callers : CallerExecReturn(i)
    \/ \E i \in Callers : CallerCountOpen(i)
    \/ \E i \in Callers : CallerCountReturn(i)
    \/ \E i \in Callers : CallerTopOpen(i)
    \/ \E i \in Callers : CallerTopReturn(i)

\* Calls of the three methods by concurrent callers, in every interleaving of
\* their steps.
SpecThreads == InitThreads /\ [][NextThreads]_vars

\* C29: concurrent execute, count and get_top_subjects_for_query calls on one
\* FullTextSearch with distinct SearchQuery instances are independent in every
\* interleaving: what a call returns (total, total_pages, clamped page,
\* results) is what it returns run alone against the same store, and no call
\* changes the specification or the session of another: a specification is
\* as it was given or as its own call clamped it, and a session runs the
\* statements of the one call that made it, which closes it.
C29_CallsIndependent ==
    \A i \in Callers :
        LET c == thr.calls[i]
            alone == Alone(c.method, c.given, thr.store, _custom_transformer)
        IN  /\ c.pc \in {"start", "count", "count_only", "top"} => c.q = c.given
            /\ c.pc \in {"fetch", "done"} => c.q = alone.q
            /\ c.pc = "done" => c.outcome = alone.outcome
            /\ c.session # 0 =>
                  /\ \A j \in Callers : j # i => thr.calls[j].session # c.session
                  /\ \A k \in 1..Len(thr.sessions[c.session].log) :
                        thr.sessions[c.session].log[k] = i
                  /\ thr.sessions[c.session].open <=> c.pc # "done"

\* Two execute calls with different specifications overlapped: the second
\* caller entered after the first, had its page clamped and returned rendered
\* rows while the first was still waiting for its rows.
C29_Witness ==
    /\ thr.calls[1].method = "execute"
    /\ thr.calls[1].pc = "fetch"
    /\ thr.calls[1].session = 1
    /\ thr.calls[2].method = "execute"
    /\ thr.calls[2].pc = "done"
    /\ thr.calls[2].session = 2
    /\ thr.calls[1].given # thr.calls[2].given
    /\ thr.calls[1].total # thr.calls[2].total
    /\ thr.calls[2].q._page < thr.calls[2].given._page
    /\ thr.calls[2].outcome.kind = "returned"
    /\ thr.calls[2].outcome.results # <<>>

====
